---- MODULE Spec2Model ----
(***************************************************************************)
(* Model of the email import pipeline of the expense tracker:              *)
(*   gmailIntegration (getEmailsFromSender, parseExpenseEmailWithoutAI,    *)
(*   deleteExistingTransactions, storeParsedExpensesBatch,                 *)
(*   storeParsedExpense, processEmailsFromSender),                         *)
(*   aiCategorization (callGeminiAPI, parseBatchResponse,                  *)
(*   extractCategoriesWithRegex, batchCategorizeExpenses,                  *)
(*   categorizeExpenseWithAI) and the storage endpoints they call.         *)
(*                                                                         *)
(* Times are whole hours, counted in UTC from 00:00 UTC of the first day   *)
(* of the imported month.  Amounts are integers (minor units).             *)
(***************************************************************************)
EXTENDS Integers, Sequences, FiniteSets, TLC

\* ------------------------------------------------------------------------
\* Bounds of the model
\* ------------------------------------------------------------------------
MaxCatLen == 2        \* longest enumerated input list of the categorizer
MaxMsgs == 2          \* most messages in the mailbox
MaxThrottle == 4      \* most times the mail API answers a whole search ladder with 429
MaxRuns == 2          \* import runs per behaviour
MaxFaults == 2        \* failures the mail API and the storage API inject per behaviour

\* ------------------------------------------------------------------------
\* Program constants
\* ------------------------------------------------------------------------
maxRetries == 3
baseDelay == 1000
maxBatchSize == 10

EXPENSE_CATEGORIES ==
  { "Groceries", "Transportation", "Food & Dining", "Shopping", "Utilities",
    "Healthcare", "Entertainment", "Education", "Insurance", "Travel",
    "Home & Garden", "Personal Care", "Business", "Gifts & Donations",
    "Other" }

\* ------------------------------------------------------------------------
\* Strings whose characters the code inspects
\* ------------------------------------------------------------------------
MerchantText(m) ==
  CASE m = "Uber" -> <<"U","b","e","r">>
    [] m = "SHELL GAS STATION" ->
         <<"S","H","E","L","L"," ","G","A","S"," ","S","T","A","T","I","O","N">>
    [] OTHER -> <<>>

UpperToLower ==
  ("A" :> "a") @@ ("B" :> "b") @@ ("C" :> "c") @@ ("D" :> "d") @@ ("E" :> "e") @@
  ("F" :> "f") @@ ("G" :> "g") @@ ("H" :> "h") @@ ("I" :> "i") @@ ("J" :> "j") @@
  ("K" :> "k") @@ ("L" :> "l") @@ ("M" :> "m") @@ ("N" :> "n") @@ ("O" :> "o") @@
  ("P" :> "p") @@ ("Q" :> "q") @@ ("R" :> "r") @@ ("S" :> "s") @@ ("T" :> "t") @@
  ("U" :> "u") @@ ("V" :> "v") @@ ("W" :> "w") @@ ("X" :> "x") @@ ("Y" :> "y") @@
  ("Z" :> "z")

toLowerCase(s) ==
  [i \in 1..Len(s) |-> IF s[i] \in DOMAIN UpperToLower THEN UpperToLower[s[i]] ELSE s[i]]

includes(s, k) ==
  \E i \in 1..(Len(s) - Len(k) + 1) : SubSeq(s, i, i + Len(k) - 1) = k

includesAny(s, ks) == \E k \in ks : includes(s, k)

determineCategory(merchant) ==
  LET merchantLower == toLowerCase(MerchantText(merchant)) IN
  IF includesAny(merchantLower,
       { <<"g","r","o","c","e","r","y">>, <<"m","a","r","k","e","t">>,
         <<"s","u","p","e","r","m","a","r","k","e","t">>, <<"f","o","o","d">> })
    THEN "Groceries"
  ELSE IF includesAny(merchantLower,
       { <<"g","a","s">>, <<"f","u","e","l">>, <<"s","h","e","l","l">>,
         <<"e","x","x","o","n">> })
    THEN "Transportation"
  ELSE IF includesAny(merchantLower,
       { <<"r","e","s","t","a","u","r","a","n","t">>, <<"c","a","f","e">>,
         <<"p","i","z","z","a">>, <<"b","u","r","g","e","r">> })
    THEN "Food & Dining"
  ELSE IF includesAny(merchantLower,
       { <<"a","m","a","z","o","n">>, <<"s","h","o","p">> })
    THEN "Shopping"
  ELSE IF includesAny(merchantLower,
       { <<"e","l","e","c","t","r","i","c">>, <<"w","a","t","e","r">>,
         <<"i","n","t","e","r","n","e","t">>, <<"p","h","o","n","e">> })
    THEN "Utilities"
  ELSE IF includesAny(merchantLower,
       { <<"p","h","a","r","m","a","c","y">>, <<"m","e","d","i","c","a","l">>,
         <<"d","o","c","t","o","r">>, <<"h","o","s","p","i","t","a","l">> })
    THEN "Healthcare"
  ELSE IF includesAny(merchantLower,
       { <<"m","o","v","i","e">>, <<"t","h","e","a","t","e","r">>,
         <<"n","e","t","f","l","i","x">>, <<"s","p","o","t","i","f","y">> })
    THEN "Entertainment"
  ELSE "Other"

\* ------------------------------------------------------------------------
\* ParsedExpense records and the answers of the text-generation API
\* ------------------------------------------------------------------------
Expense(m, a, d, cur, cat) ==
  [merchant |-> m, amount |-> a, date |-> d, currency |-> cur, category |-> cat]

withCategory(expenses, cat) ==
  [i \in 1..Len(expenses) |-> [expenses[i] EXCEPT !.category = cat]]

\* A response text, described by what the parsers find in it:
\*   parsed      what parseJSONWithRetry yields: an array, another value, or nothing
\*   items       the elements of the parsed array
\*   objCategory the category property of a parsed object ("" when absent)
\*   cats        the captures of /"category":\s*"([^"]+)"/g, in order
\*   quoted      the captures of /"([^"]+)"/g, in order
ResponseKinds ==
  { "echo", "echoForeign", "echoNoCategory", "short", "long", "badAmount",
    "object", "scrapeForeign", "scrapeShort", "quotedOnly", "garbage" }

Hallucinated == Expense("Uber", 700, 12, "USD", "Travel")

Response(kind, chunk) ==
  LET n == Len(chunk) IN
  CASE kind = "echo" ->
         [parsed |-> "array", items |-> withCategory(chunk, "Transportation"),
          objCategory |-> "", cats |-> <<>>, quoted |-> <<>>]
    [] kind = "echoForeign" ->
         [parsed |-> "array", items |-> withCategory(chunk, "Crypto"),
          objCategory |-> "", cats |-> <<>>, quoted |-> <<>>]
    [] kind = "echoNoCategory" ->
         [parsed |-> "array", items |-> withCategory(chunk, ""),
          objCategory |-> "", cats |-> <<>>, quoted |-> <<>>]
    [] kind = "short" ->
         [parsed |-> "array",
          items |-> withCategory(SubSeq(chunk, 1, n - 1), "Groceries"),
          objCategory |-> "", cats |-> <<>>, quoted |-> <<>>]
    [] kind = "long" ->
         [parsed |-> "array",
          items |-> Append(withCategory(chunk, "Groceries"), Hallucinated),
          objCategory |-> "", cats |-> <<>>, quoted |-> <<>>]
    [] kind = "badAmount" ->
         [parsed |-> "array",
          items |-> [i \in 1..n |-> [chunk[i] EXCEPT !.amount = 0, !.category = "Shopping"]],
          objCategory |-> "", cats |-> <<>>, quoted |-> <<>>]
    [] kind = "object" ->
         [parsed |-> "object", items |-> <<>>, objCategory |-> "Groceries",
          cats |-> <<"Groceries">>, quoted |-> <<"category", "Groceries">>]
    [] kind = "scrapeForeign" ->
         [parsed |-> "fail", items |-> <<>>, objCategory |-> "",
          cats |-> [i \in 1..n |-> "Crypto"],
          quoted |-> [i \in 1..(2 * n) |-> IF i % 2 = 1 THEN "category" ELSE "Crypto"]]
    [] kind = "scrapeShort" ->
         [parsed |-> "fail", items |-> <<>>, objCategory |-> "",
          cats |-> <<"Travel">>, quoted |-> <<"category", "Travel">>]
    [] kind = "quotedOnly" ->
         [parsed |-> "fail", items |-> <<>>, objCategory |-> "",
          cats |-> <<>>, quoted |-> <<"Uber", "Shopping">>]
    [] OTHER ->
         [parsed |-> "fail", items |-> <<>>, objCategory |-> "",
          cats |-> <<>>, quoted |-> <<>>]

\* ------------------------------------------------------------------------
\* aiCategorization: response parsing
\* ------------------------------------------------------------------------
parseSingleResponse(resp) ==
  IF resp.parsed = "fail" THEN "Unknown"
  ELSE LET category == IF resp.objCategory = "" THEN "Other" ELSE resp.objCategory IN
       IF category \notin EXPENSE_CATEGORIES THEN "Other" ELSE category

\* The body of the map of parseBatchResponse.
coerceItem(expense) ==
  LET category == IF expense.category = "" THEN "Unknown" ELSE expense.category IN
  IF category \notin EXPENSE_CATEGORIES
    THEN [expense EXCEPT !.category = "Unknown"]
    ELSE [expense EXCEPT !.category = category]

\* categories[index] || 'Unknown'
pick(categories, i) == IF i <= Len(categories) THEN categories[i] ELSE "Unknown"

\* The character filter of the second pass (length 3..49, no brackets,
\* colon, comma, not a number) accepts each of the 15 labels, so the two
\* filters together keep exactly the quoted strings that are labels.
isLabel(str) == str \in EXPENSE_CATEGORIES

extractCategoriesWithRegex(resp, originalExpenses) ==
  IF Len(resp.cats) > 0
    THEN [i \in 1..Len(originalExpenses) |->
            [originalExpenses[i] EXCEPT !.category = pick(resp.cats, i)]]
  ELSE LET validCategories == SelectSeq(resp.quoted, isLabel) IN
       IF Len(validCategories) > 0
         THEN [i \in 1..Len(originalExpenses) |->
                 [originalExpenses[i] EXCEPT !.category = pick(validCategories, i)]]
         ELSE <<>>

parseBatchResponse(resp, originalExpenses) ==
  IF resp.parsed # "array"
    THEN extractCategoriesWithRegex(resp, originalExpenses)
    ELSE [i \in 1..Len(resp.items) |-> coerceItem(resp.items[i])]

\* callGeminiAPI: delay before re-issuing the request after attempt `a`.
Pow2(n) == IF n <= 0 THEN 1 ELSE 2 ^ n

backoffDelay(a) == baseDelay * Pow2(a - 1)

\* a catch block that gives up the records instead of labelling them
batchCatch_dropAll(expenses) == <<>>

\* The catch block of batchCategorizeExpenses.
batchCatch(expenses) == withCategory(expenses, "Unknown")


\* ------------------------------------------------------------------------
\* State
\* ------------------------------------------------------------------------
VARIABLES
  \* the world outside the pipeline
  mailbox,        \* the sender's messages, in the order the mail API lists them
  tz,             \* UTC offset of the client's clock, in hours
  db,             \* the stored transactions
  nextId,         \* next transaction id of the database
  \* batchCategorizeExpenses / categorizeExpenseWithAI / callGeminiAPI
  catMode,        \* "none", "batch" or "single"
  catPc,          \* "idle", "call" (a request to the API is pending), "done"
  catIn,          \* the expenses argument
  catI,           \* loop variable i of the chunk loop
  attempt,        \* the attempt argument of the pending callGeminiAPI
  catResults,     \* results accumulated over the chunks
  catOut,         \* the returned list
  catThrew,       \* the call rejected instead of returning
  delays,         \* delays slept before re-issuing the pending request
  apiCalls,       \* requests sent to the API by this call
  apiOks,         \* of which answered with a usable text
  sent,           \* the chunks callGeminiAPI was called for, in order
  \* getEmailsFromSender
  frames,         \* activation records, innermost last
  searchRetries,  \* times in a row the search was started again after a 429
  searchIds,      \* ids the search of the outermost activation returned
  \* processEmailsFromSender
  pc, runNo, messages, rawExpenses, categorizedExpenses,
  processed, errors, deleted, stored, storeIdx,
  \* observation of the run
  stages,         \* stages entered, in order
  extractFailures, catFailures, storeFailures,
  persisted,      \* transactions the storage created for the run
  health,         \* clean: no request of the run failed; faults: failures injected
                  \* so far; auth: the requests of the run that met an
                  \* authentication failure
  respKinds,      \* kinds of the texts the API returned during the run
  runLog,         \* one record per finished run
  \* the body fetches of getEmailsFromSender, request by request
  fMode,          \* rateLimitMode
  acts,           \* activations of getEmailsFromSender, the outer call first
  \* two calls of processEmailsFromSender for the same user and month
  rExp,           \* the categorized expenses of the mailbox
  rPc,            \* per call: "delete" (Step 0 is next), "store" (Step 3), "done"
  rDeleted,       \* per call: deleted
  rTrace,         \* the requests served by the storage, in order
  \* one call of parseExpenseEmailWithoutAI on the text of a message
  pBody,          \* the message: the Comercio and Monto cells of its body
  pPc,            \* "idle", "call", "returned"
  pResult,        \* what the call returned: <<>> (null) or one record
  \* one call of RobustJSONParser.parse
  jIn,            \* the input: its text, the kind of text and the value meant
  jPc,            \* "idle", "direct", "repair", "extract", "reconstruct",
                  \* "returned", "threw"
  jTried,         \* the strategies run so far, in order
  jCleaned,       \* cleaned
  jResult,        \* the JSONParseResult returned
  \* the storage endpoints, request by request
  aTx,            \* the transaction table
  aMerchants,     \* the merchant table: the names
  aCategories,    \* the category table: the names
  aNextId,        \* the next transactionId
  aServed,        \* requests served so far
  aLast           \* the last request and its response

catVars == <<catMode, catPc, catIn, catI, attempt, catResults, catOut, catThrew,
             delays, apiCalls, apiOks, sent>>
mailVars == <<frames, searchRetries, searchIds>>
orchVars == <<pc, runNo, messages, rawExpenses, categorizedExpenses,
              processed, errors, deleted, stored, storeIdx>>
obsVars == <<stages, extractFailures, catFailures, storeFailures, persisted, health,
             respKinds, runLog>>
worldVars == <<mailbox, tz, db, nextId>>
fetchVars == <<fMode, acts>>
raceVars == <<rExp, rPc, rDeleted, rTrace>>
parseVars == <<pBody, pPc, pResult>>
jsonVars == <<jIn, jPc, jTried, jCleaned, jResult>>
apiVars == <<aTx, aMerchants, aCategories, aNextId, aServed, aLast>>
auxVars == <<fetchVars, raceVars, parseVars, jsonVars, apiVars>>
mainVars == <<worldVars, catVars, mailVars, orchVars, obsVars>>
vars == <<mainVars, auxVars>>

\* no body fetch is being followed request by request
fetchIdle == fMode = "normal" /\ acts = <<>>
raceIdle == rExp = <<>> /\ rPc = <<>> /\ rDeleted = <<>> /\ rTrace = <<>>
parseIdle == pBody = <<>> /\ pPc = "idle" /\ pResult = <<>>
jsonIdle ==
  jIn = <<>> /\ jPc = "idle" /\ jTried = <<>> /\ jCleaned = <<>> /\ jResult = <<>>
apiIdle ==
  /\ aTx = {} /\ aMerchants = {} /\ aCategories = {}
  /\ aNextId = 1 /\ aServed = 0 /\ aLast = <<>>
auxIdle == fetchIdle /\ raceIdle /\ parseIdle /\ jsonIdle /\ apiIdle

\* the environment answers a request with a failure
fault ==
  /\ health.faults < MaxFaults
  /\ health' = [health EXCEPT !.clean = FALSE, !.faults = health.faults + 1]

\* the request `request` is answered with the error status `status`
faultAt(request, status) ==
  /\ health.faults < MaxFaults
  /\ health' = [clean |-> FALSE, faults |-> health.faults + 1,
                auth |-> IF status = "401" THEN health.auth \cup {request}
                                           ELSE health.auth]

\* a failure that has its own bound (retries of the API, restarts of the search)
dirty == health' = [health EXCEPT !.clean = FALSE]

\* ------------------------------------------------------------------------
\* batchCategorizeExpenses, categorizeExpenseWithAI, callGeminiAPI
\* ------------------------------------------------------------------------
Min(a, b) == IF a <= b THEN a ELSE b

SeqsUpTo(S, n) == UNION { [1..k -> S] : k \in 0..n }

\* expenses.slice(i, i + maxBatchSize); the whole list when it is not chunked
chunkAt(expenses, i) ==
  SubSeq(expenses, i + 1, Min(i + maxBatchSize, Len(expenses)))

\* a loop that stops after its first chunk
moreChunks_never(expenses, i) == FALSE

\* the chunk loop continues after the chunk at i
moreChunks(expenses, i) ==
  Len(expenses) > maxBatchSize /\ i + maxBatchSize < Len(expenses)

\* callGeminiAPI re-issues the request after a 503, a 429 or a network error
mayRetry(a) == a <= maxRetries

\* what the caller gets when callGeminiAPI rejects
CatFail ==
  /\ catPc' = "done"
  /\ catOut' = IF catMode = "single"
                 THEN withCategory(catIn, "Unknown")
                 ELSE batchCatch(catIn)
  /\ catThrew' = FALSE
  /\ catFailures' = catFailures + 1
  /\ UNCHANGED <<catI, attempt, catResults, delays>>

\* The API answers 200 with a non-empty text.
GeminiOk ==
  /\ catPc = "call"
  /\ \E kind \in ResponseKinds :
       LET chunk == chunkAt(catIn, catI)
           resp == Response(kind, chunk)
       IN
       /\ respKinds' = Append(respKinds, kind)
       /\ IF catMode = "single"
            THEN /\ catOut' = withCategory(catIn, parseSingleResponse(resp))
                 /\ catPc' = "done"
                 /\ UNCHANGED <<catI, attempt, catResults, sent>>
            ELSE LET results == catResults \o parseBatchResponse(resp, chunk) IN
                 /\ catResults' = results
                 /\ IF moreChunks(catIn, catI)
                      THEN /\ catI' = catI + maxBatchSize
                           /\ attempt' = 1
                           /\ sent' = Append(sent, chunkAt(catIn, catI + maxBatchSize))
                           /\ UNCHANGED <<catPc, catOut>>
                      ELSE /\ catPc' = "done"
                           /\ catOut' = results
                           /\ UNCHANGED <<catI, attempt, sent>>
  /\ apiCalls' = apiCalls + 1
  /\ apiOks' = apiOks + 1
  /\ delays' = <<>>
  /\ UNCHANGED <<catMode, catIn, catThrew, catFailures>>
  /\ UNCHANGED <<worldVars, mailVars, orchVars>>
  /\ UNCHANGED <<stages, extractFailures, storeFailures, health, runLog>>
  /\ UNCHANGED persisted
  /\ UNCHANGED auxVars

\* The API answers 503 or 429.
GeminiRetryable ==
  /\ catPc = "call"
  /\ apiCalls' = apiCalls + 1
  /\ dirty
  /\ IF mayRetry(attempt)
       THEN /\ delays' = Append(delays, backoffDelay(attempt))
            /\ attempt' = attempt + 1
            /\ UNCHANGED <<catPc, catI, catResults, catOut, catThrew, catFailures>>
       ELSE CatFail
  /\ UNCHANGED <<catMode, catIn, apiOks, sent>>
  /\ UNCHANGED <<worldVars, mailVars, orchVars>>
  /\ UNCHANGED <<stages, extractFailures, storeFailures, respKinds, runLog>>
  /\ UNCHANGED persisted
  /\ UNCHANGED auxVars

\* fetch rejects with a TypeError (the network is down).
GeminiNetworkError ==
  /\ catPc = "call"
  /\ apiCalls' = apiCalls + 1
  /\ dirty
  /\ IF mayRetry(attempt)
       THEN /\ delays' = Append(delays, backoffDelay(attempt))
            /\ attempt' = attempt + 1
            /\ UNCHANGED <<catPc, catI, catResults, catOut, catThrew, catFailures>>
       ELSE CatFail
  /\ UNCHANGED <<catMode, catIn, apiOks, sent>>
  /\ UNCHANGED <<worldVars, mailVars, orchVars>>
  /\ UNCHANGED <<stages, extractFailures, storeFailures, respKinds, runLog>>
  /\ UNCHANGED persisted
  /\ UNCHANGED auxVars

\* Any other failure: another status, an empty text, no API key.
GeminiFatal ==
  /\ catPc = "call"
  /\ apiCalls' = apiCalls + 1
  /\ dirty
  /\ CatFail
  /\ UNCHANGED <<catMode, catIn, apiOks, sent>>
  /\ UNCHANGED <<worldVars, mailVars, orchVars>>
  /\ UNCHANGED <<stages, extractFailures, storeFailures, respKinds, runLog>>
  /\ UNCHANGED persisted
  /\ UNCHANGED auxVars

CatNext == GeminiOk \/ GeminiRetryable \/ GeminiNetworkError \/ GeminiFatal

\* ------------------------------------------------------------------------
\* Dates: the window of the imported month
\* ------------------------------------------------------------------------
DaysInMonth == 31
NowTime == 800                       \* new Date(): the run happens after the month

\* new Date(year, month - 1, 1): local midnight of the first day
windowStart == 0 - tz
\* new Date(year, month, 0, 23, 59, 59, 999): last local hour of the last day
windowEnd == DaysInMonth * 24 - 1 - tz

\* d.toISOString().split('T')[0]: the UTC calendar day, the time of day is cut
isoDay(t) == t \div 24
\* new Date('YYYY-MM-DD') on the server: 00:00 UTC of that day
dayToDate(day) == day * 24

\* ------------------------------------------------------------------------
\* Messages and parseExpenseEmailWithoutAI
\* ------------------------------------------------------------------------
\* monto: "absent" (no Monto cell), "single" (one token), "pair" (currency amount)
Msg(commerce, monto, numeric, amount, cur, bodyOk, bodyDate, hdrOk, hdrDate) ==
  [commerce |-> commerce, monto |-> monto, numeric |-> numeric, amount |-> amount,
   currency |-> cur, bodyDateValid |-> bodyOk, bodyDate |-> bodyDate,
   hdrDateValid |-> hdrOk, hdrDate |-> hdrDate]

\* a mid-month expense, an expense of the last day of the month, a body that
\* is no expense notification, an expense mailed before the month
MsgVariants ==
  << Msg("Uber", "pair", TRUE, 1250, "USD", TRUE, 36, TRUE, 36),
     Msg("SHELL GAS STATION", "pair", TRUE, 4567, "USD",
         TRUE, (DaysInMonth - 1) * 24 + 10, TRUE, (DaysInMonth - 1) * 24 + 10),
     Msg("", "absent", FALSE, 0, "", FALSE, 0, TRUE, 60),
     Msg("Uber", "pair", TRUE, 1250, "USD", FALSE, 0, TRUE, 0 - 100) >>

\* mailboxes up to the order of the messages
Mailboxes ==
  { [i \in 1..Len(ix) |-> MsgVariants[ix[i]]] :
      ix \in { jx \in SeqsUpTo(1..Len(MsgVariants), MaxMsgs) :
                 \A i \in 1..(Len(jx) - 1) : jx[i] <= jx[i + 1] } }

\* an element of the list getEmailsFromSender returns: a message, or the
\* list a nested call returned
MessageItem(i) == [kind |-> "message", id |-> i, list |-> <<>>]
ArrayItem(l) == [kind |-> "array", id |-> 0, list |-> l]

resolveDate(m) ==
  IF m.bodyDateValid THEN m.bodyDate
  ELSE IF m.hdrDateValid THEN m.hdrDate
  ELSE NowTime

\* the amount check of parseExpenseFromTextWithoutAI
validAmount(numeric, amount) == numeric /\ amount > 0

\* zero or one ParsedExpense (null is the empty sequence)
parseExpenseFromTextWithoutAI(m) ==
  IF m.commerce = "" \/ m.monto # "pair" THEN <<>>
  ELSE IF ~validAmount(m.numeric, m.amount) THEN <<>>
  ELSE << Expense(m.commerce, m.amount, resolveDate(m), m.currency, "Other") >>

\* an array has no payload: the TypeError is caught and null returned
parseExpenseEmailWithoutAI(item) ==
  IF item.kind = "array" THEN <<>>
  ELSE parseExpenseFromTextWithoutAI(mailbox[item.id])

\* Step 1 of processEmailsFromSender: the loop over the messages
RECURSIVE extractLoop(_, _)
extractLoop(msgs, acc) ==
  IF msgs = <<>> THEN acc
  ELSE LET parsedExpense == parseExpenseEmailWithoutAI(Head(msgs)) IN
       extractLoop(Tail(msgs),
         [raw |-> acc.raw \o parsedExpense,
          processed |-> acc.processed + 1,
          errors |-> acc.errors,
          nulls |-> acc.nulls + (IF parsedExpense = <<>> THEN 1 ELSE 0)])

\* ------------------------------------------------------------------------
\* Storage endpoints
\* ------------------------------------------------------------------------
User == "u1"

CurrencyCodes == {"USD", "CRC"}            \* strings matching /^[A-Z]{3}$/

\* validateExpense, on the fields the model carries
validateExpense(amount, category, merchant, currency) ==
  /\ amount > 0
  /\ category # ""
  /\ merchant # ""
  /\ currency \in CurrencyCodes

\* a where clause without the userId term
inDeleteRange_anyUser(t, userId, startDay, endDay) ==
  /\ t.date >= dayToDate(startDay)
  /\ t.date <= dayToDate(endDay)

\* where clause of DELETE /api/expenses/delete-by-range
inDeleteRange(t, userId, startDay, endDay) ==
  /\ t.userId = userId
  /\ t.date >= dayToDate(startDay)
  /\ t.date <= dayToDate(endDay)

orDefault(v, d) == IF v = "" THEN d ELSE v

\* storeParsedExpensesBatch: the request body (invalid amounts are skipped)
cleanExpense(e) ==
  [e EXCEPT !.category = orDefault(e.category, "Other"),
            !.currency = orDefault(e.currency, "CRC")]

positiveAmount(e) == e.amount > 0

transactionData(expenses) ==
  LET kept == SelectSeq(expenses, positiveAmount) IN
  [i \in 1..Len(kept) |-> cleanExpense(kept[i])]

\* POST /api/expenses/batch: every expense passes validateExpense
batchValid(expenses) ==
  \A i \in 1..Len(expenses) :
    validateExpense(expenses[i].amount, orDefault(expenses[i].category, "Other"),
                    expenses[i].merchant, orDefault(expenses[i].currency, "CRC"))

Transaction(id, userId, e) ==
  [id |-> id, userId |-> userId, date |-> e.date, merchant |-> e.merchant,
   amount |-> e.amount, currency |-> e.currency, category |-> e.category]

\* a bulk insert that writes every row a second time
createAll_repeated(expenses, userId, firstId) ==
  { Transaction(firstId + i - 1, userId, expenses[i]) : i \in 1..Len(expenses) }
    \cup { Transaction(firstId + Len(expenses) + i - 1, userId, expenses[i]) :
             i \in 1..Len(expenses) }

\* createTransactionsBatch
createAll(expenses, userId, firstId) ==
  { Transaction(firstId + i - 1, userId, expenses[i]) : i \in 1..Len(expenses) }

\* ------------------------------------------------------------------------
\* getEmailsFromSender
\* ------------------------------------------------------------------------
MaxDepth == 2         \* activations of getEmailsFromSender alive at once

\* pc of an activation: "token", "search", "page", "fallback", "fetch";
\* ladder: the answered search requests of the ladder, in order
NewFrame ==
  [pc |-> "token", query |-> 1, allMessages |-> <<>>, rest |-> <<>>,
   idx |-> 1, details |-> <<>>, ladder |-> <<>>]

\* the answer to search query q: whether it was a 200, and how many messages
\* it carried
Answer(q, ok, n) == [q |-> q, ok |-> ok, n |-> n]

\* a ladder that goes on to the next query whatever the answer was
noResults_always(ok, m) == TRUE

\* `!searchResponse.ok || !searchData?.messages || searchData.messages.length === 0`
noResults(ok, m) == ~ok \/ m = <<>>

top == frames[Len(frames)]
setTop(f) == [frames EXCEPT ![Len(frames)] = f]

\* the mail API: ids matching `from:<sender> after:<start> before:<end>`
\* (queries 1 and 2) or `from:<sender>` (query 3)
allIds == [i \in 1..Len(mailbox) |-> i]
inMonth(i) ==
  mailbox[i].hdrDateValid /\ mailbox[i].hdrDate >= 0
    /\ mailbox[i].hdrDate < DaysInMonth * 24
matching(q) == IF q = 3 THEN allIds ELSE SelectSeq(allIds, inMonth)

\* an orchestrator that goes from the fetch straight to the extraction
afterFetch_skipDelete == "extract"

\* where processEmailsFromSender continues once the messages are there
afterFetch == "delete"

\* the activation returns `result`: to processEmailsFromSender, or into the
\* slot of the body fetch that made the nested call
mailReturn(result) ==
  IF Len(frames) = 1
    THEN /\ frames' = <<>>
         /\ messages' = result
         /\ searchIds' = top.allMessages
         /\ pc' = afterFetch
    ELSE LET parent == frames[Len(frames) - 1] IN
         /\ frames' = [SubSeq(frames, 1, Len(frames) - 1) EXCEPT ![Len(frames) - 1] =
                         [parent EXCEPT !.details = Append(parent.details, ArrayItem(result)),
                                        !.idx = parent.idx + 1]]
         /\ UNCHANGED <<messages, searchIds, pc>>

\* the activation throws.  A nested call was returned, not awaited, by the
\* body fetch that made it: its rejection passes the try/catch of that fetch,
\* rejects the Promise.all of the batch and leaves every enclosing activation;
\* processEmailsFromSender rethrows.
mailThrow ==
  /\ frames' = <<>>
  /\ pc' = "failed"
  /\ UNCHANGED <<messages, searchIds>>

mailFrame ==
  /\ UNCHANGED <<worldVars, catVars>>
  /\ UNCHANGED <<runNo, rawExpenses, categorizedExpenses, processed, errors,
                 deleted, stored, storeIdx>>
  /\ UNCHANGED <<stages, extractFailures, catFailures, storeFailures, respKinds, runLog>>
  /\ UNCHANGED persisted
  /\ UNCHANGED auxVars

\* getAccessToken
GetToken ==
  /\ frames # <<>> /\ top.pc = "token"
  /\ \E ok \in BOOLEAN :
       IF ok THEN /\ frames' = setTop([top EXCEPT !.pc = "search"])
                  /\ UNCHANGED <<messages, searchIds, pc, health>>
             ELSE /\ mailThrow
                  /\ faultAt("token", "401")
  /\ UNCHANGED searchRetries
  /\ mailFrame

\* a search request of the ladder is answered 200
SearchOk ==
  /\ frames # <<>> /\ top.pc = "search"
  /\ LET m == matching(top.query) IN
     /\ \E k \in (IF m = <<>> THEN {0} ELSE 1..Len(m)) :     \* the first page
          LET first == SubSeq(m, 1, k)
              seen == [top EXCEPT !.ladder = Append(top.ladder,
                                                    Answer(top.query, TRUE, k))] IN
          frames' = setTop(
            IF noResults(TRUE, first)
              THEN IF top.query < 3
                     THEN [seen EXCEPT !.query = top.query + 1]
                     ELSE [seen EXCEPT !.pc = "fallback"]
              ELSE [seen EXCEPT
                      !.allMessages = first,
                      !.rest = SubSeq(m, k + 1, Len(m)),
                      !.pc = IF k < Len(m) THEN "page" ELSE "fetch"])
     /\ searchRetries' = IF m = <<>> /\ top.query < 3 THEN searchRetries ELSE 0
  /\ UNCHANGED <<messages, searchIds, pc, health>>
  /\ mailFrame

\* a search request of the ladder is answered with an error status
SearchFail ==
  /\ frames # <<>> /\ top.pc = "search"
  /\ \E status \in {"401", "429", "500"} :
       IF top.query < 3
         THEN /\ noResults(FALSE, <<>>)
              /\ frames' = setTop([top EXCEPT
                                     !.query = top.query + 1,
                                     !.ladder = Append(top.ladder,
                                                       Answer(top.query, FALSE, 0))])
              /\ faultAt("search", status)
              /\ UNCHANGED <<messages, searchIds, pc, searchRetries>>
         ELSE IF status = "429"
           THEN /\ searchRetries < MaxThrottle
                /\ frames' = setTop(NewFrame)
                /\ searchRetries' = searchRetries + 1
                /\ dirty
                /\ UNCHANGED <<messages, searchIds, pc>>
           ELSE /\ mailThrow
                /\ faultAt("search", status)
                /\ searchRetries' = 0
  /\ mailFrame

\* the pagination loop: one request for the next page
NextPage ==
  /\ frames # <<>> /\ top.pc = "page"
  /\ \/ \E k \in 1..Len(top.rest) :
          /\ frames' = setTop([top EXCEPT
                                 !.allMessages = top.allMessages \o SubSeq(top.rest, 1, k),
                                 !.rest = SubSeq(top.rest, k + 1, Len(top.rest)),
                                 !.pc = IF k < Len(top.rest) THEN "page" ELSE "fetch"])
          /\ UNCHANGED health
     \/ \E status \in {"401", "500"} :                        \* not ok: break
          /\ frames' = setTop([top EXCEPT !.pc = "fetch"])
          /\ faultAt("search", status)
  /\ UNCHANGED <<messages, searchIds, pc, searchRetries>>
  /\ mailFrame

\* no message found: the final fallback search, whose result is only logged
FinalFallback ==
  /\ frames # <<>> /\ top.pc = "fallback"
  /\ mailReturn(<<>>)
  /\ UNCHANGED <<health, searchRetries>>
  /\ mailFrame

\* the body fetch of message allMessages[idx]
FetchBody ==
  /\ frames # <<>> /\ top.pc = "fetch" /\ top.idx <= Len(top.allMessages)
  /\ \E status \in {"ok", "429", "401", "500"} :
       CASE status = "ok" ->
              /\ frames' = setTop([top EXCEPT
                     !.details = Append(top.details, MessageItem(top.allMessages[top.idx])),
                     !.idx = top.idx + 1])
              /\ UNCHANGED health
         [] status = "429" ->
              /\ Len(frames) < MaxDepth
              /\ frames' = Append(frames, NewFrame)
              /\ fault
         [] OTHER ->
              /\ frames' = setTop([top EXCEPT !.idx = top.idx + 1])
              /\ faultAt("body", status)
  /\ UNCHANGED <<messages, searchIds, pc, searchRetries>>
  /\ mailFrame

\* every batch is complete: return messageDetails
FetchDone ==
  /\ frames # <<>> /\ top.pc = "fetch" /\ top.idx > Len(top.allMessages)
  /\ mailReturn(top.details)
  /\ UNCHANGED <<health, searchRetries>>
  /\ mailFrame

MailNext ==
  GetToken \/ SearchOk \/ SearchFail \/ NextPage \/ FinalFallback \/ FetchBody \/ FetchDone

\* ------------------------------------------------------------------------
\* Specification of the categorizer alone
\* ------------------------------------------------------------------------
Merchants == {"Uber", "SHELL GAS STATION"}

\* what parseExpenseFromTextWithoutAI hands over: category 'Other'
CatExpenses == { Expense(m, 1250, 36, "USD", "Other") : m \in Merchants }

\* one list longer than a chunk
LongInput == [i \in 1..(maxBatchSize + 1) |-> Expense("Uber", 1250, 36, "USD", "Other")]

\* one list of two full chunks and a rest, its records told apart by the amount
LongInput25 ==
  [i \in 1..(2 * maxBatchSize + 5) |-> Expense("Uber", 1000 + i, 36, "USD", "Other")]

CatInputs == SeqsUpTo(CatExpenses, MaxCatLen) \cup {LongInput, LongInput25}

OrchIdle ==
  /\ mailbox = <<>> /\ tz = 0 /\ db = {} /\ nextId = 1
  /\ frames = <<>> /\ searchRetries = 0 /\ searchIds = <<>>
  /\ pc = "idle" /\ runNo = 0 /\ messages = <<>> /\ rawExpenses = <<>>
  /\ categorizedExpenses = <<>> /\ processed = 0 /\ errors = 0 /\ deleted = 0
  /\ stored = 0 /\ storeIdx = 0
  /\ stages = <<>> /\ extractFailures = 0 /\ storeFailures = 0 /\ runLog = <<>>
  /\ persisted = 0

CatInit ==
  /\ OrchIdle
  /\ catMode \in {"batch", "single"}
  /\ catIn \in CatInputs
  /\ catMode = "single" => Len(catIn) = 1
  /\ catPc = "call" /\ catI = 0 /\ attempt = 1 /\ catResults = <<>>
  /\ catOut = <<>> /\ catThrew = FALSE /\ delays = <<>>
  /\ apiCalls = 0 /\ apiOks = 0
  /\ sent = <<chunkAt(catIn, 0)>>
  /\ catFailures = 0 /\ health = [clean |-> TRUE, faults |-> 0, auth |-> {}] /\ respKinds = <<>>
  /\ auxIdle

SpecCat == CatInit /\ [][CatNext]_vars


\* ------------------------------------------------------------------------
\* processEmailsFromSender
\* ------------------------------------------------------------------------
TzOffsets == {0 - 6, 0, 1}

catIdle ==
  /\ catMode = "none" /\ catPc = "idle" /\ catIn = <<>> /\ catI = 0 /\ attempt = 1
  /\ catResults = <<>> /\ catOut = <<>> /\ catThrew = FALSE /\ delays = <<>>
  /\ apiCalls = 0 /\ apiOks = 0 /\ sent = <<>>

Init ==
  /\ mailbox \in Mailboxes
  /\ tz \in TzOffsets
  /\ db = {} /\ nextId = 1
  /\ catIdle
  /\ frames = <<>> /\ searchRetries = 0 /\ searchIds = <<>>
  /\ pc = "idle" /\ runNo = 0 /\ messages = <<>> /\ rawExpenses = <<>>
  /\ categorizedExpenses = <<>> /\ processed = 0 /\ errors = 0 /\ deleted = 0
  /\ stored = 0 /\ storeIdx = 0
  /\ stages = <<>> /\ extractFailures = 0 /\ catFailures = 0 /\ storeFailures = 0
  /\ health = [clean |-> TRUE, faults |-> 0, auth |-> {}] /\ respKinds = <<>> /\ runLog = <<>>
  /\ persisted = 0
  /\ auxIdle

\* the call: getEmailsFromSender is awaited first
StartRun ==
  /\ pc \in {"idle", "done"}
  /\ runNo < MaxRuns
  /\ runNo' = runNo + 1
  /\ pc' = "fetch"
  /\ frames' = <<NewFrame>>
  /\ searchRetries' = 0 /\ searchIds' = <<>>
  /\ messages' = <<>> /\ rawExpenses' = <<>> /\ categorizedExpenses' = <<>>
  /\ processed' = 0 /\ errors' = 0 /\ deleted' = 0 /\ stored' = 0 /\ storeIdx' = 0
  /\ stages' = <<"FetchMessages">>
  /\ extractFailures' = 0 /\ catFailures' = 0 /\ storeFailures' = 0
  /\ health' = [health EXCEPT !.clean = TRUE, !.auth = {}] /\ respKinds' = <<>>
  /\ UNCHANGED <<worldVars, catVars, runLog>>
  /\ persisted' = 0
  /\ UNCHANGED auxVars

\* Step 0: deleteExistingTransactions and DELETE /api/expenses/delete-by-range
DeleteExisting ==
  /\ pc = "delete"
  /\ \E outcome \in {"ok", "401", "500"} :
       IF outcome = "ok"
         THEN LET victims == { t \in db : inDeleteRange(t, User, isoDay(windowStart),
                                                        isoDay(windowEnd)) } IN
              /\ db' = db \ victims
              /\ deleted' = Cardinality(victims)
              /\ UNCHANGED health
         ELSE /\ deleted' = 0                \* caught: the run goes on
              /\ faultAt("delete", outcome)
              /\ UNCHANGED db
  /\ pc' = "extract"
  /\ stages' = Append(stages, "DeletePriorWindow")
  /\ UNCHANGED <<mailbox, tz, nextId, catVars, mailVars>>
  /\ UNCHANGED <<runNo, messages, rawExpenses, categorizedExpenses, processed,
                 errors, stored, storeIdx>>
  /\ UNCHANGED <<extractFailures, catFailures, storeFailures, respKinds, runLog>>
  /\ UNCHANGED persisted
  /\ UNCHANGED auxVars

\* where the run continues after Step 1
afterExtract(raw) == IF raw # <<>> THEN "categorize" ELSE "summarize"

\* Step 1: the extraction loop
ExtractAll ==
  /\ pc = "extract"
  /\ LET r == extractLoop(messages, [raw |-> <<>>, processed |-> 0, errors |-> 0,
                                     nulls |-> 0]) IN
     /\ rawExpenses' = r.raw
     /\ processed' = processed + r.processed
     /\ errors' = errors + r.errors
     /\ extractFailures' = r.nulls
     /\ pc' = afterExtract(r.raw)
     /\ stages' = IF pc' = "summarize"
                    THEN stages \o <<"ExtractFields", "Summarize">>
                    ELSE Append(stages, "ExtractFields")
  /\ UNCHANGED <<worldVars, catVars, mailVars>>
  /\ UNCHANGED <<runNo, messages, categorizedExpenses, deleted, stored, storeIdx>>
  /\ UNCHANGED <<catFailures, storeFailures, health, respKinds, runLog>>
  /\ UNCHANGED persisted
  /\ UNCHANGED auxVars

\* Step 2: batchCategorizeExpenses(rawExpenses) is called
CategorizeStart ==
  /\ pc = "categorize"
  /\ catMode' = "batch" /\ catPc' = "call" /\ catIn' = rawExpenses
  /\ catI' = 0 /\ attempt' = 1 /\ catResults' = <<>> /\ catOut' = <<>>
  /\ catThrew' = FALSE /\ delays' = <<>> /\ apiCalls' = 0 /\ apiOks' = 0
  /\ sent' = <<chunkAt(rawExpenses, 0)>>
  /\ pc' = "categorizing"
  /\ stages' = Append(stages, "Categorize")
  /\ UNCHANGED <<worldVars, mailVars>>
  /\ UNCHANGED <<runNo, messages, rawExpenses, categorizedExpenses, processed,
                 errors, deleted, stored, storeIdx>>
  /\ UNCHANGED <<extractFailures, catFailures, storeFailures, health, respKinds, runLog>>
  /\ UNCHANGED persisted
  /\ UNCHANGED auxVars

\* the catch block of Step 2
ruleBased(expenses) ==
  [i \in 1..Len(expenses) |->
     [expenses[i] EXCEPT !.category = determineCategory(expenses[i].merchant)]]

\* Step 2: batchCategorizeExpenses has settled
CategorizeReturn ==
  /\ pc = "categorizing" /\ catPc = "done"
  /\ LET result == IF catThrew THEN ruleBased(rawExpenses) ELSE catOut IN
     /\ categorizedExpenses' = result
     /\ pc' = IF result # <<>> THEN "store" ELSE "summarize"
     /\ stages' = IF result # <<>> THEN stages ELSE Append(stages, "Summarize")
  /\ catPc' = "idle" /\ catMode' = "none" /\ catIn' = <<>> /\ catI' = 0
  /\ attempt' = 1 /\ catResults' = <<>> /\ catOut' = <<>> /\ catThrew' = FALSE
  /\ delays' = <<>> /\ apiCalls' = 0 /\ apiOks' = 0 /\ sent' = <<>>
  /\ UNCHANGED <<worldVars, mailVars>>
  /\ UNCHANGED <<runNo, messages, rawExpenses, processed, errors, deleted, stored,
                 storeIdx>>
  /\ UNCHANGED <<extractFailures, catFailures, storeFailures, health, respKinds, runLog>>
  /\ UNCHANGED persisted
  /\ UNCHANGED auxVars

\* Step 3: storeParsedExpensesBatch and POST /api/expenses/batch
StoreBatch ==
  /\ pc = "store"
  /\ LET data == transactionData(categorizedExpenses) IN
     IF data = <<>>
       THEN \* nothing valid: no request is sent, the call returns
            /\ stored' = Len(categorizedExpenses)
            /\ pc' = "summarize"
            /\ UNCHANGED <<db, nextId, errors, storeIdx, storeFailures, persisted, health>>
       ELSE \E outcome \in {"serve", "401", "500"} :
              IF outcome = "serve" /\ batchValid(data)
                THEN /\ db' = db \cup createAll(data, User, nextId)
                     /\ nextId' = nextId + Len(data)
                     /\ persisted' = persisted + Len(data)
                     /\ stored' = Len(categorizedExpenses)
                     /\ pc' = "summarize"
                     /\ UNCHANGED <<errors, storeIdx, storeFailures, health>>
                ELSE /\ errors' = errors + 1
                     /\ storeFailures' = storeFailures + 1
                     /\ storeIdx' = 1
                     /\ pc' = "storeEach"
                     /\ IF outcome = "serve" THEN UNCHANGED health ELSE faultAt("store", outcome)
                     /\ UNCHANGED <<db, nextId, stored, persisted>>
  /\ stages' = IF pc' = "summarize"
                 THEN stages \o <<"StoreBatch", "Summarize">>
                 ELSE Append(stages, "StoreBatch")
  /\ UNCHANGED <<mailbox, tz, catVars, mailVars>>
  /\ UNCHANGED <<runNo, messages, rawExpenses, categorizedExpenses, processed, deleted>>
  /\ UNCHANGED <<extractFailures, catFailures, respKinds, runLog>>
  /\ UNCHANGED auxVars

\* Step 3, fallback: storeParsedExpense and POST /api/expenses, one expense
StoreEach ==
  /\ pc = "storeEach"
  /\ LET e == cleanExpense(categorizedExpenses[storeIdx])
         merchantName == orDefault(e.merchant, "Unknown")
     IN
     \E outcome \in {"serve", "401", "500"} :
       IF outcome = "serve"
            /\ validateExpense(e.amount, e.category, merchantName, e.currency)
         THEN /\ db' = db \cup { Transaction(nextId, User, [e EXCEPT !.merchant = merchantName]) }
              /\ nextId' = nextId + 1
              /\ persisted' = persisted + 1
              /\ stored' = stored + 1
              /\ UNCHANGED <<errors, storeFailures, health>>
         ELSE /\ errors' = errors + 1
              /\ storeFailures' = storeFailures + 1
              /\ IF outcome = "serve" THEN UNCHANGED health ELSE faultAt("store", outcome)
              /\ UNCHANGED <<db, nextId, stored, persisted>>
  /\ storeIdx' = storeIdx + 1
  /\ pc' = IF storeIdx < Len(categorizedExpenses) THEN "storeEach" ELSE "summarize"
  /\ stages' = IF pc' = "summarize" THEN Append(stages, "Summarize") ELSE stages
  /\ UNCHANGED <<mailbox, tz, catVars, mailVars>>
  /\ UNCHANGED <<runNo, messages, rawExpenses, categorizedExpenses, processed, deleted>>
  /\ UNCHANGED <<extractFailures, catFailures, respKinds, runLog>>
  /\ UNCHANGED auxVars

userCount == Cardinality({ t \in db : t.userId = User })

\* every text the API returned was the input list with a label on each record
wellFormed(kinds) == \A i \in 1..Len(kinds) : kinds[i] = "echo"

\* return { processed, stored, deleted, errors, transactions }: the summary
\* is the state at pc = "summarize"; the locals go out of scope
Summarize ==
  /\ pc = "summarize"
  /\ pc' = "done"
  /\ runLog' = Append(runLog, [count |-> userCount,
                               ideal |-> health.clean /\ wellFormed(respKinds)])
  /\ messages' = <<>> /\ rawExpenses' = <<>> /\ categorizedExpenses' = <<>>
  /\ processed' = 0 /\ errors' = 0 /\ deleted' = 0 /\ stored' = 0 /\ storeIdx' = 0
  /\ searchRetries' = 0 /\ searchIds' = <<>>
  /\ stages' = <<>>
  /\ extractFailures' = 0 /\ catFailures' = 0 /\ storeFailures' = 0
  /\ respKinds' = <<>>
  /\ UNCHANGED <<worldVars, catVars, frames, runNo, health>>
  /\ persisted' = 0
  /\ UNCHANGED auxVars

OrchNext ==
  StartRun \/ DeleteExisting \/ ExtractAll \/ CategorizeStart \/ CategorizeReturn
    \/ StoreBatch \/ StoreEach \/ Summarize

Next == OrchNext \/ MailNext \/ CatNext

Spec == Init /\ [][Next]_vars


\* ------------------------------------------------------------------------
\* getEmailsFromSender: the body fetches, request by request
\* ------------------------------------------------------------------------
FetchMsgs == 4        \* ids the search returned
MaxActs == 2          \* activations of getEmailsFromSender started

FetchModes == {"conservative", "normal"}

batchSizeOf(mode) ==
  IF mode = "conservative" THEN 3 ELSE IF mode = "normal" THEN 5 ELSE 10

\* a slot is the promise of one message of allMessages:
\*   "idle"     its batch has not started
\*   "delay"    waiting delayBetweenRequests before the request
\*   "inflight" the request is sent, no response yet
\*   "ok", "null"  settled with the message, with null
\*   "backoff"  answered 429, waiting before the nested call
\*   "nested"   the nested getEmailsFromSender is running
\*   "array"    settled with the list the nested call returned
requestOver(st) == st \notin {"idle", "delay", "inflight"}
settled(st) == st \in {"ok", "null", "array"}

\* caller: <<activation, slot>> of the body fetch that made the call
NewAct(caller, first) ==
  [caller |-> caller, pc |-> first, i |-> 0,
   slot |-> [m \in 1..FetchMsgs |-> "idle"],
   arr |-> [m \in 1..FetchMsgs |-> <<>>],
   details |-> <<>>]

\* allMessages.slice(i, i + batchSize), as positions
batchAt(i) == { m \in 1..FetchMsgs : m > i /\ m <= i + batchSizeOf(fMode) }

\* batchResults.filter(result => result !== null), in the order of the batch
RECURSIVE validResults(_, _, _)
validResults(act, m, last) ==
  IF m > last THEN <<>>
  ELSE (CASE act.slot[m] = "ok" -> <<MessageItem(m)>>
          [] act.slot[m] = "array" -> <<ArrayItem(act.arr[m])>>
          [] OTHER -> <<>>)
       \o validResults(act, m + 1, last)

mainIdle ==
  /\ OrchIdle /\ catIdle
  /\ catFailures = 0 /\ health = [clean |-> TRUE, faults |-> 0, auth |-> {}]
  /\ respKinds = <<>>

FetchInit ==
  /\ mainIdle /\ raceIdle /\ parseIdle /\ jsonIdle /\ apiIdle
  /\ fMode \in FetchModes
  /\ acts = << NewAct(<<0, 0>>, "start") >>

\* batch.map(async ...): the first request is sent, the others wait
FStartBatch ==
  /\ \E a \in DOMAIN acts :
       /\ acts[a].pc = "start"
       /\ acts' = [acts EXCEPT ![a].pc = "await",
                               ![a].slot = [m \in 1..FetchMsgs |->
                                  IF m \in batchAt(acts[a].i)
                                    THEN (IF m = acts[a].i + 1 THEN "inflight" ELSE "delay")
                                    ELSE acts[a].slot[m]]]
  /\ UNCHANGED <<mainVars, fMode, raceVars, parseVars, jsonVars, apiVars>>

\* delayBetweenRequests is over: fetch(.../messages/<id>)
FIssue ==
  /\ \E a \in DOMAIN acts : \E m \in 1..FetchMsgs :
       /\ acts[a].slot[m] = "delay"
       /\ acts' = [acts EXCEPT ![a].slot[m] = "inflight"]
  /\ UNCHANGED <<mainVars, fMode, raceVars, parseVars, jsonVars, apiVars>>

\* the response of a body fetch
FRespond ==
  /\ \E a \in DOMAIN acts : \E m \in 1..FetchMsgs : \E status \in {"ok", "429", "500"} :
       /\ acts[a].slot[m] = "inflight"
       /\ acts' = [acts EXCEPT ![a].slot[m] =
                     CASE status = "ok" -> "ok"
                       [] status = "429" -> "backoff"
                       [] OTHER -> "null"]
  /\ UNCHANGED <<mainVars, fMode, raceVars, parseVars, jsonVars, apiVars>>

\* after the 2000 ms: return getEmailsFromSender(...)
FSpawn ==
  /\ Len(acts) < MaxActs
  /\ \E a \in DOMAIN acts : \E m \in 1..FetchMsgs :
       /\ acts[a].slot[m] = "backoff"
       /\ acts' = Append([acts EXCEPT ![a].slot[m] = "nested"],
                         NewAct(<<a, m>>, "search"))
  /\ UNCHANGED <<mainVars, fMode, raceVars, parseVars, jsonVars, apiVars>>

\* the token and the search of a nested call: the same ids, or a throw that
\* rejects the batch of every enclosing call
FSearch ==
  /\ \E a \in DOMAIN acts : \E ok \in BOOLEAN :
       /\ acts[a].pc = "search"
       /\ acts' = IF ok THEN [acts EXCEPT ![a].pc = "start"]
                        ELSE [b \in DOMAIN acts |-> [acts[b] EXCEPT !.pc = "threw"]]
  /\ UNCHANGED <<mainVars, fMode, raceVars, parseVars, jsonVars, apiVars>>

\* await Promise.all(batchPromises): the next batch, or the return
FJoin ==
  /\ \E a \in DOMAIN acts :
       LET act == acts[a]
           next == act.i + batchSizeOf(fMode)
           got == act.details \o validResults(act, act.i + 1, Min(next, FetchMsgs))
           c == act.caller
       IN
       /\ act.pc = "await"
       /\ \A m \in batchAt(act.i) : settled(act.slot[m])
       /\ IF next < FetchMsgs
            THEN acts' = [acts EXCEPT ![a].details = got, ![a].i = next,
                                      ![a].pc = "start"]
            ELSE IF c[1] = 0
              THEN acts' = [acts EXCEPT ![a].details = got, ![a].i = next,
                                        ![a].pc = "returned"]
              ELSE acts' = [acts EXCEPT ![a].details = got, ![a].i = next,
                                        ![a].pc = "returned",
                                        ![c[1]].slot[c[2]] = "array",
                                        ![c[1]].arr[c[2]] = got]
  /\ UNCHANGED <<mainVars, fMode, raceVars, parseVars, jsonVars, apiVars>>

FetchNext == FStartBatch \/ FIssue \/ FRespond \/ FSpawn \/ FSearch \/ FJoin

SpecFetch == FetchInit /\ [][FetchNext]_vars

\* ------------------------------------------------------------------------
\* Two overlapping calls of processEmailsFromSender: Step 0 and Step 3
\* ------------------------------------------------------------------------
Runs == {1, 2}

\* what both calls extract and categorize from the same mailbox: expenses of
\* the middle and of the last day of the month
RaceExpenses ==
  { Expense("Uber", 1250, 36, "USD", "Transportation"),
    Expense("SHELL GAS STATION", 4567, (DaysInMonth - 1) * 24 + 10, "USD",
            "Transportation") }

RaceInputs == SeqsUpTo(RaceExpenses, MaxMsgs) \ {<<>>}

RaceInit ==
  /\ mailbox = <<>> /\ tz \in TzOffsets /\ db = {} /\ nextId = 1
  /\ frames = <<>> /\ searchRetries = 0 /\ searchIds = <<>>
  /\ pc = "idle" /\ runNo = 0 /\ messages = <<>> /\ rawExpenses = <<>>
  /\ categorizedExpenses = <<>> /\ processed = 0 /\ errors = 0 /\ deleted = 0
  /\ stored = 0 /\ storeIdx = 0
  /\ stages = <<>> /\ extractFailures = 0 /\ storeFailures = 0 /\ runLog = <<>>
  /\ persisted = 0
  /\ catIdle
  /\ catFailures = 0 /\ health = [clean |-> TRUE, faults |-> 0, auth |-> {}]
  /\ respKinds = <<>>
  /\ fetchIdle /\ parseIdle /\ jsonIdle /\ apiIdle
  /\ rExp \in RaceInputs
  /\ rPc = [r \in Runs |-> "delete"]
  /\ rDeleted = [r \in Runs |-> 0]
  /\ rTrace = <<>>

raceFrame ==
  /\ UNCHANGED <<mailbox, tz, catVars, mailVars, orchVars, obsVars, fetchVars, rExp>>
  /\ UNCHANGED <<parseVars, jsonVars, apiVars>>

\* Step 0 of call r, served by DELETE /api/expenses/delete-by-range
RDelete(r) ==
  /\ rPc[r] = "delete"
  /\ LET victims == { t \in db : inDeleteRange(t, User, isoDay(windowStart),
                                                isoDay(windowEnd)) } IN
     /\ db' = db \ victims
     /\ rDeleted' = [rDeleted EXCEPT ![r] = Cardinality(victims)]
  /\ rPc' = [rPc EXCEPT ![r] = "store"]
  /\ rTrace' = Append(rTrace, <<r, "delete">>)
  /\ UNCHANGED nextId
  /\ raceFrame

\* Step 3 of call r, served by POST /api/expenses/batch
RStore(r) ==
  /\ rPc[r] = "store"
  /\ LET data == transactionData(rExp) IN
     /\ db' = db \cup createAll(data, User, nextId)
     /\ nextId' = nextId + Len(data)
  /\ rPc' = [rPc EXCEPT ![r] = "done"]
  /\ rTrace' = Append(rTrace, <<r, "store">>)
  /\ UNCHANGED rDeleted
  /\ raceFrame

RaceNext == \E r \in Runs : RDelete(r) \/ RStore(r)

SpecRace == RaceInit /\ [][RaceNext]_vars

\* ------------------------------------------------------------------------
\* parseExpenseEmailWithoutAI on the text of the body
\* ------------------------------------------------------------------------
MaxCell == 5          \* characters in the Monto cell

\* the characters of a cell: a letter, a blank, digits, a sign, a comma
Digits == {"0", "1"}
MontoChars == {"C", " ", "-", ","} \cup Digits
CommerceChars == {"U", " "}

\* String.prototype.trim
RECURSIVE trimStart(_)
trimStart(s) == IF s # <<>> /\ Head(s) = " " THEN trimStart(Tail(s)) ELSE s

RECURSIVE trimEnd(_)
trimEnd(s) ==
  IF s # <<>> /\ s[Len(s)] = " " THEN trimEnd(SubSeq(s, 1, Len(s) - 1)) ELSE s

trim(s) == trimEnd(trimStart(s))

firstIndex(s, ch) ==
  LET hits == { i \in 1..Len(s) : s[i] = ch } IN
  IF hits = {} THEN 0 ELSE CHOOSE i \in hits : \A j \in hits : i <= j

\* s.replace(ch, ''): the first occurrence only
replaceFirst(s, ch) ==
  LET i == firstIndex(s, ch) IN
  IF i = 0 THEN s ELSE SubSeq(s, 1, i - 1) \o SubSeq(s, i + 1, Len(s))

\* s.split(sep): ''.split(' ') is ['']
RECURSIVE split(_, _)
split(s, sep) ==
  LET i == firstIndex(s, sep) IN
  IF i = 0 THEN <<s>>
  ELSE <<SubSeq(s, 1, i - 1)>> \o split(SubSeq(s, i + 1, Len(s)), sep)

RECURSIVE digitsPrefix(_)
digitsPrefix(s) ==
  IF s # <<>> /\ Head(s) \in Digits THEN <<Head(s)>> \o digitsPrefix(Tail(s)) ELSE <<>>

RECURSIVE decimal(_)
decimal(d) ==
  IF d = <<>> THEN 0
  ELSE 10 * decimal(SubSeq(d, 1, Len(d) - 1)) + (IF d[Len(d)] = "1" THEN 1 ELSE 0)

\* parseFloat: an optional sign and the longest prefix of digits; NaN when
\* there is no digit
parseFloat(str) ==
  LET neg == str # <<>> /\ Head(str) = "-"
      d == digitsPrefix(IF neg THEN Tail(str) ELSE str) IN
  IF d = <<>> THEN [numeric |-> FALSE, value |-> 0]
  ELSE [numeric |-> TRUE, value |-> IF neg THEN 0 - decimal(d) ELSE decimal(d)]

\* text.match(/...Monto:...([^<]+)/i)?.[1]?.trim()?.replace(',', '').split(' ');
\* an empty cell does not match: <<>> is undefined
montoMatchOf(cell) ==
  IF cell = <<>> THEN <<>> ELSE split(replaceFirst(trim(cell), ","), " ")

\* parseExpenseFromTextWithoutAI on the cells: merchant, amount and currency
\* of the record, or <<>> for null
parseExpenseFromCells(commerceCell, montoCell) ==
  LET commerce == trim(commerceCell)
      montoMatch == montoMatchOf(montoCell) IN
  IF commerce = <<>> \/ montoMatch = <<>> \/ Len(montoMatch) < 2 THEN <<>>
  ELSE LET currency == montoMatch[1]
           amount == parseFloat(montoMatch[2]) IN
       IF ~validAmount(amount.numeric, amount.value) THEN <<>>
       ELSE << [merchant |-> commerce, amount |-> amount.value, currency |-> currency] >>

\* parseExpenseEmailWithoutAI: an item without payload (the list of a nested
\* call) raises a TypeError, which the catch turns into null
parseExpenseEmailCells(item) ==
  IF item.kind = "array" THEN <<>>
  ELSE parseExpenseFromCells(item.commerce, item.monto)

ParseBodies ==
  { [kind |-> "array", commerce |-> <<>>, monto |-> <<>>] }
    \cup { [kind |-> "message", commerce |-> c, monto |-> m] :
             c \in SeqsUpTo(CommerceChars, 2), m \in SeqsUpTo(MontoChars, MaxCell) }

ParseInit ==
  /\ mainIdle /\ fetchIdle /\ raceIdle /\ jsonIdle /\ apiIdle
  /\ pBody \in ParseBodies
  /\ pPc = "call"
  /\ pResult = <<>>

ParseReturn ==
  /\ pPc = "call"
  /\ pResult' = parseExpenseEmailCells(pBody)
  /\ pPc' = "returned"
  /\ UNCHANGED <<mainVars, fetchVars, raceVars, jsonVars, apiVars, pBody>>

ParseNext == ParseReturn

SpecParse == ParseInit /\ [][ParseNext]_vars

\* ------------------------------------------------------------------------
\* RobustJSONParser: texts, regular expressions
\* ------------------------------------------------------------------------
\* a text is a sequence of characters; the characters of the texts considered
Quote == "\""
Backslash == "\\"
Newline == "\n"
Backtick == "backtick"
Letters == {"a", "c"}
JsonDigits == {"1", "2"}

\* a character class: the characters of set, or all the others
In(set) == [set |-> set, neg |-> FALSE]
NotIn(set) == [set |-> set, neg |-> TRUE]
inClass(c, cls) == (c \in cls.set) # cls.neg

AnyChar == NotIn({})                         \* [\s\S]
Space == In({" ", Newline})                  \* \s, and the white space of JSON
IdStart == In(Letters \cup {"j", "s", "o", "n", "_", "$"})      \* [a-zA-Z_$]
IdPart == In(IdStart.set \cup JsonDigits)                       \* [a-zA-Z0-9_$]

\* an atom of a regular expression: a character class with a quantifier
\* ("1", "*", "+"), or an anchor ("^", "$"); g is its capture group, 0 for none
Atom(cls, q, g) == [cls |-> cls, q |-> q, g |-> g]
Ch(c) == Atom(In({c}), "1", 0)
Start == Atom(AnyChar, "^", 0)
End == Atom(AnyChar, "$", 0)

NoCaps == [g \in 1..4 |-> <<>>]
capture(caps, g, text) == IF g = 0 THEN caps ELSE [caps EXCEPT ![g] = caps[g] \o text]

Least(S) == CHOOSE x \in S : \A y \in S : x <= y
Greatest(S) == CHOOSE x \in S : \A y \in S : x >= y

\* f applied to the value of e, which is computed once
Bind(e, f(_)) == CHOOSE out \in { f(x) : x \in {e} } : TRUE

\* how many characters of s, from position i on, are in cls
runLength(cls, s, i) ==
  Least({ j \in i..Len(s) : ~inClass(s[j], cls) } \cup {Len(s) + 1}) - i

\* the match of the atoms k.. of p at position i of s, greedy with
\* backtracking: <<>> or one record with the end of the match and the groups
RECURSIVE matchAt(_, _, _, _, _)
RECURSIVE matchRepeat(_, _, _, _, _, _, _)
matchAt(p, k, s, i, caps) ==
  IF k > Len(p) THEN << [end |-> i, caps |-> caps] >>
  ELSE LET a == p[k] IN
       CASE a.q = "$" -> IF i = Len(s) + 1 THEN matchAt(p, k + 1, s, i, caps) ELSE <<>>
         [] a.q = "^" -> IF i = 1 THEN matchAt(p, k + 1, s, i, caps) ELSE <<>>
         [] a.q = "1" -> IF i <= Len(s) /\ inClass(s[i], a.cls)
                           THEN Bind(capture(caps, a.g, <<s[i]>>),
                                     LAMBDA c : matchAt(p, k + 1, s, i + 1, c))
                           ELSE <<>>
         [] OTHER -> Bind(runLength(a.cls, s, i),
                          LAMBDA n : matchRepeat(p, k, s, i, caps, n,
                                                 IF a.q = "+" THEN 1 ELSE 0))

\* the longest repetition, of n characters at most, after which the rest of
\* the pattern matches
matchRepeat(p, k, s, i, caps, n, least) ==
  LET rest(m) == matchAt(p, k + 1, s, i + m,
                         capture(caps, p[k].g, SubSeq(s, i, i + m - 1))) IN
  Bind({ m \in least..n : rest(m) # <<>> },
       LAMBDA fits : IF fits = {} THEN <<>> ELSE rest(Greatest(fits)))

\* the leftmost match of p in s at or after position i
search(p, s, i) ==
  Bind({ j \in i..(Len(s) + 1) : matchAt(p, 1, s, j, NoCaps) # <<>> },
       LAMBDA starts :
         IF starts = {} THEN <<>>
         ELSE Bind(matchAt(p, 1, s, Least(starts), NoCaps),
                   LAMBDA r : << [start |-> Least(starts), end |-> r[1].end,
                                  caps |-> r[1].caps] >>))

\* a replacement text: characters and references $g
Lit(c) == [g |-> 0, ch |-> c]
Ref(g) == [g |-> g, ch |-> ""]

RECURSIVE expand(_, _)
expand(tmpl, caps) ==
  IF tmpl = <<>> THEN <<>>
  ELSE (IF Head(tmpl).g = 0 THEN <<Head(tmpl).ch>> ELSE caps[Head(tmpl).g])
         \o expand(Tail(tmpl), caps)

\* s.replace(/p/g, tmpl), from position i on
RECURSIVE replaceFrom(_, _, _, _)
replaceFrom(p, tmpl, s, i) ==
  Bind(search(p, s, i),
       LAMBDA r :
         IF r = <<>> THEN SubSeq(s, i, Len(s))
         ELSE SubSeq(s, i, r[1].start - 1) \o expand(tmpl, r[1].caps)
                \o (IF r[1].end > r[1].start THEN replaceFrom(p, tmpl, s, r[1].end)
                    ELSE IF r[1].start <= Len(s)
                      THEN <<s[r[1].start]>> \o replaceFrom(p, tmpl, s, r[1].start + 1)
                      ELSE <<>>))

regexReplaceAll(p, tmpl, text) == Bind(text, LAMBDA s : replaceFrom(p, tmpl, s, 1))

\* s.replace(/p/, tmpl): the first match only
regexReplace(p, tmpl, text) ==
  Bind(text, LAMBDA s :
    Bind(search(p, s, 1), LAMBDA r :
      IF r = <<>> THEN s
      ELSE SubSeq(s, 1, r[1].start - 1) \o expand(tmpl, r[1].caps)
             \o SubSeq(s, r[1].end, Len(s))))

\* s.match(/p/)?.[0]: <<>> stands for no match (no pattern used matches the
\* empty text)
regexMatch(p, text) ==
  Bind(text, LAMBDA s :
    Bind(search(p, s, 1), LAMBDA r :
      IF r = <<>> THEN <<>> ELSE SubSeq(s, r[1].start, r[1].end - 1)))

\* ------------------------------------------------------------------------
\* JSON.parse
\* ------------------------------------------------------------------------
\* a JSON value: t is "arr", "obj", "str", "num" or "null"; text is the
\* content of a string or the digits of a number; items are the elements of
\* an array, or the members [k, v] of an object
JsonValue(t, text, items) == [t |-> t, text |-> text, items |-> items]
JsonNull == JsonValue("null", <<>>, <<>>)
JsonArr(items) == JsonValue("arr", <<>>, items)
JsonObj(members) == JsonValue("obj", <<>>, members)
JsonStr(text) == JsonValue("str", text, <<>>)
JsonNum(text) == JsonValue("num", text, <<>>)

\* the outcome of a parsing step: the value read and the next position
Parsed(v, i) == [ok |-> TRUE, v |-> v, i |-> i]
SyntaxError == [ok |-> FALSE, v |-> JsonNull, i |-> 0]

skipWs(s, i) == i + runLength(Space, s, i)

\* a member whose key is already there replaces the value of that key
putMember(members, k, v) ==
  IF \E j \in 1..Len(members) : members[j].k = k
    THEN [j \in 1..Len(members) |->
            IF members[j].k = k THEN [k |-> k, v |-> v] ELSE members[j]]
    ELSE Append(members, [k |-> k, v |-> v])

\* the characters of a string after the opening quote; an escape is a
\* backslash before a quote, a backslash or one of /bfnrtu; a control
\* character is not allowed
RECURSIVE parseString(_, _, _)
parseString(s, i, acc) ==
  IF i > Len(s) THEN SyntaxError
  ELSE IF s[i] = Quote THEN Parsed(JsonStr(acc), i + 1)
  ELSE IF s[i] = Backslash
    THEN IF i + 1 <= Len(s) /\ s[i + 1] \in {Quote, Backslash}
           THEN parseString(s, i + 2, Append(acc, s[i + 1]))
           ELSE IF i + 1 <= Len(s) /\ s[i + 1] = "n"
             THEN parseString(s, i + 2, Append(acc, Newline))
             ELSE SyntaxError
  ELSE IF s[i] = Newline THEN SyntaxError
  ELSE parseString(s, i + 1, Append(acc, s[i]))

\* the character at position j, "" past the end of the text
charAt(s, j) == IF j <= Len(s) THEN s[j] ELSE ""

RECURSIVE parseValue(_, _)
RECURSIVE parseElements(_, _, _)
RECURSIVE parseMembers(_, _, _)
parseValue(s, i) ==
  Bind(skipWs(s, i), LAMBDA j :
    CASE charAt(s, j) = "[" ->
           Bind(skipWs(s, j + 1), LAMBDA k :
             IF charAt(s, k) = "]" THEN Parsed(JsonArr(<<>>), k + 1)
             ELSE parseElements(s, j + 1, <<>>))
      [] charAt(s, j) = "{" ->
           Bind(skipWs(s, j + 1), LAMBDA k :
             IF charAt(s, k) = "}" THEN Parsed(JsonObj(<<>>), k + 1)
             ELSE parseMembers(s, j + 1, <<>>))
      [] charAt(s, j) = Quote -> parseString(s, j + 1, <<>>)
      [] charAt(s, j) \in JsonDigits ->
           Bind(runLength(In(JsonDigits), s, j), LAMBDA n :
             Parsed(JsonNum(SubSeq(s, j, j + n - 1)), j + n))
      [] OTHER -> SyntaxError)

\* the elements of an array after [ or ,
parseElements(s, i, acc) ==
  Bind(parseValue(s, i), LAMBDA r :
    IF ~r.ok THEN SyntaxError
    ELSE Bind(skipWs(s, r.i), LAMBDA k :
           Bind(Append(acc, r.v), LAMBDA items :
             CASE charAt(s, k) = "," -> parseElements(s, k + 1, items)
               [] charAt(s, k) = "]" -> Parsed(JsonArr(items), k + 1)
               [] OTHER -> SyntaxError)))

\* the members of an object after { or ,
parseMembers(s, i, acc) ==
  Bind(skipWs(s, i), LAMBDA j :
    IF charAt(s, j) # Quote THEN SyntaxError
    ELSE Bind(parseString(s, j + 1, <<>>), LAMBDA key :
      IF ~key.ok \/ charAt(s, skipWs(s, key.i)) # ":" THEN SyntaxError
      ELSE Bind(parseValue(s, skipWs(s, key.i) + 1), LAMBDA r :
        IF ~r.ok THEN SyntaxError
        ELSE Bind(skipWs(s, r.i), LAMBDA k :
               Bind(putMember(acc, key.v.text, r.v), LAMBDA members :
                 CASE charAt(s, k) = "," -> parseMembers(s, k + 1, members)
                   [] charAt(s, k) = "}" -> Parsed(JsonObj(members), k + 1)
                   [] OTHER -> SyntaxError)))))

\* JSON.parse(s): the value, or a SyntaxError
JSONparse(text) ==
  Bind(text, LAMBDA s :
    Bind(parseValue(s, 1), LAMBDA r :
      IF r.ok /\ skipWs(s, r.i) = Len(s) + 1 THEN r ELSE SyntaxError))

\* ------------------------------------------------------------------------
\* RobustJSONParser: cleanAndRepair, extractValidJSON
\* ------------------------------------------------------------------------
Sp(q, g) == Atom(Space, q, g)                       \* \s with a quantifier
NotQuote(g) == Atom(NotIn({Quote}), "*", g)         \* [^"]*

\* String.prototype.trim on a text
trimText(s) ==
  regexReplace(<<Sp("+", 0), End>>, <<>>, regexReplace(<<Start, Sp("+", 0)>>, <<>>, s))

startsWith(s, c) == s # <<>> /\ s[1] = c
endsWith(s, c) == s # <<>> /\ s[Len(s)] = c

\* fixGeminiAPIIssues
fixGeminiAPIIssues(jsonString) ==
  LET \* /\\\\"/g and /\\"/g
      f1 == regexReplaceAll(<<Ch(Backslash), Ch(Backslash), Ch(Quote)>>, <<Lit(Quote)>>,
                            jsonString)
      f2 == regexReplaceAll(<<Ch(Backslash), Ch(Quote)>>, <<Lit(Quote)>>, f1)
      \* /"([^"]*)\\\",\s*\\\\"([^"]*)"([^"]*):/g  ->  '"$1", "$2$3":'
      f3 == regexReplaceAll(
              <<Ch(Quote), NotQuote(1), Ch(Backslash), Ch(Quote), Ch(","), Sp("*", 0),
                Ch(Backslash), Ch(Backslash), Ch(Quote), NotQuote(2), Ch(Quote),
                NotQuote(3), Ch(":")>>,
              <<Lit(Quote), Ref(1), Lit(Quote), Lit(","), Lit(" "), Lit(Quote), Ref(2),
                Ref(3), Lit(Quote), Lit(":")>>, f2)
      \* /"([^"]*)\\\":\s*([^,}]+),\s*\\\\"([^"]*)"([^"]*):/g  ->  '"$1": $2, "$3$4":'
      f4 == regexReplaceAll(
              <<Ch(Quote), NotQuote(1), Ch(Backslash), Ch(Quote), Ch(":"), Sp("*", 0),
                Atom(NotIn({",", "}"}), "+", 2), Ch(","), Sp("*", 0),
                Ch(Backslash), Ch(Backslash), Ch(Quote), NotQuote(3), Ch(Quote),
                NotQuote(4), Ch(":")>>,
              <<Lit(Quote), Ref(1), Lit(Quote), Lit(":"), Lit(" "), Ref(2), Lit(","),
                Lit(" "), Lit(Quote), Ref(3), Ref(4), Lit(Quote), Lit(":")>>, f3)
      \* /"([^"]*)\\\"\s*}/g  ->  '"$1" }'
      f5 == regexReplaceAll(
              <<Ch(Quote), NotQuote(1), Ch(Backslash), Ch(Quote), Sp("*", 0), Ch("}")>>,
              <<Lit(Quote), Ref(1), Lit(Quote), Lit(" "), Lit("}")>>, f4)
      \* /\{[^}]*$/, /,\s*$/, /,\s*\]/: the first match of each
      f6 == regexReplace(<<Ch("{"), Atom(NotIn({"}"}), "*", 0), End>>, <<>>, f5)
      f7 == regexReplace(<<Ch(","), Sp("*", 0), End>>, <<>>, f6)
  IN regexReplace(<<Ch(","), Sp("*", 0), Ch("]")>>, <<Lit("]")>>, f7)

\* cleanAndRepair
cleanAndRepair(jsonString) ==
  LET c0 == trimText(jsonString)
      \* the markdown fences: three backticks and "json" at the start, three
      \* backticks at the end; trim
      c1 == regexReplace(<<Start, Ch(Backtick), Ch(Backtick), Ch(Backtick), Ch("j"), Ch("s"), Ch("o"),
                           Ch("n"), Sp("*", 0)>>, <<>>, c0)
      c2 == trimText(regexReplace(<<Sp("*", 0), Ch(Backtick), Ch(Backtick), Ch(Backtick), End>>, <<>>, c1))
      \* /[\u0000-\u001F\u007F-\u009F]/g: the line feed is a control character
      c3 == regexReplaceAll(<<Ch(Newline)>>, <<>>, c2)
      \* /\s+/g -> ' ', trim
      c4 == trimText(regexReplaceAll(<<Sp("+", 0)>>, <<Lit(" ")>>, c3))
      c5 == fixGeminiAPIIssues(c4)
      \* /([{,]\s*)([a-zA-Z_$][a-zA-Z0-9_$]*)\s*:/g  ->  '$1"$2":'
      c6 == regexReplaceAll(
              <<Atom(In({"{", ","}), "1", 1), Sp("*", 1), Atom(IdStart, "1", 2),
                Atom(IdPart, "*", 2), Sp("*", 0), Ch(":")>>,
              <<Ref(1), Lit(Quote), Ref(2), Lit(Quote), Lit(":")>>, c5)
      \* /'/g -> '"', /""/g -> '"'
      c7 == regexReplaceAll(<<Ch("'")>>, <<Lit(Quote)>>, c6)
      c8 == regexReplaceAll(<<Ch(Quote), Ch(Quote)>>, <<Lit(Quote)>>, c7)
      \* /,(\s*[}\]])/g -> '$1', /,(\s*$)/g -> ''
      c9 == regexReplaceAll(<<Ch(","), Sp("*", 1), Atom(In({"}", "]"}), "1", 1)>>,
                            <<Ref(1)>>, c8)
  IN regexReplaceAll(<<Ch(","), Sp("*", 0), End>>, <<>>, c9)

\* fixArrayStructure
fixArrayStructure(arrayString) ==
  LET a1 == regexReplace(<<Ch(","), Sp("*", 0), Ch("{"), Atom(NotIn({"}"}), "*", 0), End>>,
                         <<>>, arrayString)
      a2 == regexReplace(<<Ch(","), Sp("*", 0), Ch("]")>>, <<Lit("]")>>, a1)
      a3 == IF startsWith(a2, "[") THEN a2 ELSE <<"[">> \o a2
  IN IF endsWith(a3, "]") THEN a3 ELSE a3 \o <<"]">>

\* fixObjectStructure
fixObjectStructure(objectString) ==
  LET o1 == regexReplace(<<Ch(","), Sp("*", 0), Ch(Quote), NotQuote(0), Ch(Quote), Ch(":"),
                           Sp("*", 0), Atom(NotIn({",", "}"}), "*", 0), End>>,
                         <<>>, objectString)
      o2 == regexReplace(<<Ch(","), Sp("*", 0), Ch("}")>>, <<Lit("}")>>, o1)
      o3 == IF startsWith(o2, "{") THEN o2 ELSE <<"{">> \o o2
  IN IF endsWith(o3, "}") THEN o3 ELSE o3 \o <<"}">>

\* the span between the first open and the last close, as it is or
\* fixed, when it parses; <<>> otherwise
extractSpan(jsonString, open, close, fixed(_)) ==
  LET extracted == regexMatch(<<Ch(open), Atom(AnyChar, "*", 0), Ch(close)>>, jsonString) IN
  IF extracted = <<>> THEN <<>>
  ELSE IF JSONparse(extracted).ok THEN extracted
  ELSE IF JSONparse(fixed(extracted)).ok THEN fixed(extracted)
  ELSE <<>>

\* extractValidJSON: the array span, else the object span; <<>> is null
extractValidJSON(jsonString) ==
  LET array == extractSpan(jsonString, "[", "]", fixArrayStructure) IN
  IF array # <<>> THEN array
  ELSE extractSpan(jsonString, "{", "}", fixObjectStructure)

\* reconstructFromFragments: not implemented, null
reconstructFromFragments(jsonString) == <<>>

\* ------------------------------------------------------------------------
\* RobustJSONParser.parse
\* ------------------------------------------------------------------------
MaxObjs == 2          \* objects in the array of a model response
MaxGarbage == 2       \* characters of an arbitrary text

\* the objects of a categorization response
ResponseObjects ==
  { JsonObj(<< [k |-> <<"c">>, v |-> JsonStr(<<"a">>)], [k |-> <<"a">>, v |-> JsonNum(<<"1">>)] >>),
    JsonObj(<< [k |-> <<"a">>, v |-> JsonNum(<<"2">>)], [k |-> <<"c">>, v |-> JsonStr(<<"c", "a">>)] >>) }

ResponseValues == { JsonArr(items) : items \in SeqsUpTo(ResponseObjects, MaxObjs) \ {<<>>} }

\* the text of a value.  quote: how a quote is written; bare: keys without
\* quotes; comma: what follows the last element of an array or object
RECURSIVE stringify(_, _, _, _)
RECURSIVE joinItems(_, _, _, _)
RECURSIVE joinMembers(_, _, _, _)
stringify(v, quote, bare, comma) ==
  CASE v.t = "arr" -> <<"[">> \o joinItems(v.items, quote, bare, comma) \o <<"]">>
    [] v.t = "obj" -> <<"{">> \o joinMembers(v.items, quote, bare, comma) \o <<"}">>
    [] v.t = "str" -> quote \o v.text \o quote
    [] OTHER -> v.text

joinItems(items, quote, bare, comma) ==
  IF items = <<>> THEN <<>>
  ELSE stringify(Head(items), quote, bare, comma)
         \o (IF Len(items) = 1 THEN comma
             ELSE <<",">> \o joinItems(Tail(items), quote, bare, comma))

joinMembers(members, quote, bare, comma) ==
  IF members = <<>> THEN <<>>
  ELSE (IF bare THEN Head(members).k ELSE quote \o Head(members).k \o quote)
         \o <<":">> \o stringify(Head(members).v, quote, bare, comma)
         \o (IF Len(members) = 1 THEN comma
             ELSE <<",">> \o joinMembers(Tail(members), quote, bare, comma))

JSONstringify(v) == stringify(v, <<Quote>>, FALSE, <<>>)

Input(class, text, value) == [class |-> class, text |-> text, value |-> value]

\* the model answered with well-formed JSON, bare or inside markdown fences
WellFormed ==
  { Input("plain", JSONstringify(v), v) : v \in ResponseValues }
    \cup { Input("fenced",
                 <<Backtick, Backtick, Backtick, "j", "s", "o", "n", Newline>>
                   \o JSONstringify(v) \o <<Newline, Backtick, Backtick, Backtick>>, v) :
             v \in ResponseValues }

\* escaped quotes: every quote written \" or \\", or the quote that ends a
\* value written \" and the quote that starts the next key written \\"
EscapedQuotes ==
  { Input("escaped", stringify(v, q, FALSE, <<>>), v) :
      v \in ResponseValues, q \in {<<Backslash, Quote>>, <<Backslash, Backslash, Quote>>} }
    \cup { Input("escaped",
                 regexReplaceAll(<<Ch(Quote), Ch(","), Ch(Quote)>>,
                                 <<Lit(Backslash), Lit(Quote), Lit(","), Lit(" "),
                                   Lit(Backslash), Lit(Backslash), Lit(Quote)>>,
                                 JSONstringify(v)), v) :
             v \in ResponseValues }

TrailingCommas == { Input("trailing", stringify(v, <<Quote>>, FALSE, <<",">>), v) : v \in ResponseValues }

BarewordKeys == { Input("bareword", stringify(v, <<Quote>>, TRUE, <<>>), v) : v \in ResponseValues }

\* the answer was cut: every proper prefix of the text of an array
TruncatedArrays ==
  UNION { { Input("truncated", SubSeq(JSONstringify(v), 1, n), v) :
              n \in 1..(Len(JSONstringify(v)) - 1) } : v \in ResponseValues }

\* arbitrary short texts
GarbageChars ==
  {"[", "]", "{", "}", ",", ":", Quote, Backslash, " ", Newline} \cup Letters \cup JsonDigits
Garbage == { Input("garbage", t, JsonNull) : t \in SeqsUpTo(GarbageChars, MaxGarbage) }

JsonInputs ==
  WellFormed \cup EscapedQuotes \cup TrailingCommas \cup BarewordKeys
    \cup TruncatedArrays \cup Garbage

JsonInit ==
  /\ mainIdle /\ fetchIdle /\ raceIdle /\ parseIdle /\ apiIdle
  /\ jIn \in JsonInputs
  /\ jPc = "direct"
  /\ jTried = <<>>
  /\ jCleaned = <<>>
  /\ jResult = <<>>

JSONParseResult(success, data, originalLength, cleanedLength) ==
  << [success |-> success, data |-> data, originalLength |-> originalLength,
      cleanedLength |-> cleanedLength] >>

\* a caller of JSON.parse that lets the SyntaxError through
afterSyntaxError_rethrow(next) == "threw"

\* `catch (error) { }`: the SyntaxError is dropped and the next strategy runs
afterSyntaxError(next) == next

\* one strategy: JSON.parse(text) inside try/catch
tryStrategy(n, text, next) ==
  LET r == JSONparse(text) IN
  /\ jTried' = Append(jTried, n)
  /\ IF r.ok
       THEN /\ jResult' = JSONParseResult(TRUE, r.v, Len(jIn.text), Len(text))
            /\ jPc' = "returned"
       ELSE /\ jResult' = jResult
            /\ jPc' = afterSyntaxError(next)

jsonFrame == UNCHANGED <<mainVars, fetchVars, raceVars, parseVars, apiVars, jIn>>

\* Strategy 1: Try parsing as-is
Direct ==
  /\ jPc = "direct"
  /\ tryStrategy(1, jIn.text, "repair")
  /\ UNCHANGED jCleaned
  /\ jsonFrame

\* Strategy 2: Clean and repair
Repair ==
  /\ jPc = "repair"
  /\ jCleaned' = cleanAndRepair(jIn.text)
  /\ tryStrategy(2, jCleaned', "extract")
  /\ jsonFrame

\* Strategy 3: Extract valid JSON array/object
Extract ==
  /\ jPc = "extract"
  /\ LET extracted == extractValidJSON(jCleaned) IN
     IF extracted # <<>>
       THEN tryStrategy(3, extracted, "reconstruct")
       ELSE /\ jTried' = Append(jTried, 3)
            /\ jPc' = "reconstruct"
            /\ UNCHANGED jResult
  /\ UNCHANGED jCleaned
  /\ jsonFrame

\* Strategy 4: Reconstruct from fragments; then the failure result
Reconstruct ==
  /\ jPc = "reconstruct"
  /\ LET reconstructed == reconstructFromFragments(jCleaned) IN
     IF reconstructed # <<>>
       THEN tryStrategy(4, reconstructed, "returned")
       ELSE /\ jTried' = Append(jTried, 4)
            /\ jPc' = "returned"
            /\ jResult' = JSONParseResult(FALSE, JsonNull, Len(jIn.text), Len(jCleaned))
  /\ UNCHANGED jCleaned
  /\ jsonFrame

JsonNext == Direct \/ Repair \/ Extract \/ Reconstruct

SpecJson == JsonInit /\ [][JsonNext]_vars

\* ------------------------------------------------------------------------
\* The storage endpoints: /api/expenses/[id], /api/expenses/update-category,
\* /api/expenses/delete-by-range and /api/expenses/batch
\* ------------------------------------------------------------------------
MaxRequests == 2      \* requests served per behaviour
MaxBatch == 2         \* most expenses in the body of a batch request

Users == {"u1", "u2"}
\* (session?.user)?.id || (session?.user)?.email: "" when there is no session
Sessions == Users \cup {""}

\* the transaction table before the first request: a record of each user
\* dated in the first days of the month, and a later record of the first user
SeedTx ==
  { Transaction(1, "u1", Expense("Uber", 1250, 36, "USD", "Transportation")),
    Transaction(2, "u2", Expense("Uber", 900, 40, "USD", "Transportation")),
    Transaction(3, "u1", Expense("SHELL GAS STATION", 4567, 800, "USD", "Other")) }

\* ids a request names: the ids of the table and one that is not in it
RequestIds == 1..(Cardinality(SeedTx) + 1)
\* transactionId of a PATCH body: 0 stands for a body without it
PatchIds == 0..(Cardinality(SeedTx) + 1)
\* amount and category of a PUT body, category of a PATCH body: 0 and ""
\* stand for a body without the field
PutAmounts == {0, 500}
BodyCategories == {"", "Food & Dining"}
\* startDate and endDate of a delete-by-range body as calendar days: <<>>
\* stands for a body that lacks one of them
RangeDays == {0, 2, 40}
Ranges == {<<>>} \cup { <<s, e>> : s, e \in RangeDays }

\* an element of req.body.expenses: dated is FALSE when it carries neither
\* transactionDate nor date
Item(e, dated) == [expense |-> e, dated |-> dated]
BatchItems ==
  { Item(Expense("Uber", 1250, 36, "USD", "Transportation"), TRUE),
    Item(Expense("Uber", 0, 36, "USD", "Transportation"), TRUE),
    Item(Expense("SHELL GAS STATION", 4567, 60, "", ""), TRUE),
    Item(Expense("SHELL GAS STATION", 4567, 60, "", ""), FALSE) }
\* req.body: expenses is an array, or is missing
BatchBodies ==
  { [isArray |-> TRUE, expenses |-> x] : x \in SeqsUpTo(BatchItems, MaxBatch) }
    \cup { [isArray |-> FALSE, expenses |-> <<>>] }

ApiInit ==
  /\ mainIdle /\ fetchIdle /\ raceIdle /\ parseIdle /\ jsonIdle
  /\ aTx = SeedTx
  /\ aMerchants = { t.merchant : t \in SeedTx }
  /\ aCategories = { t.category : t \in SeedTx }
  /\ aNextId = Cardinality(SeedTx) + 1
  /\ aServed = 0
  /\ aLast = <<>>

apiFrame == UNCHANGED <<mainVars, fetchVars, raceVars, parseVars, jsonVars>>

\* the request served and the response it got
respond(endpoint, user, id, range, expenses, status, n) ==
  /\ aLast' = << [endpoint |-> endpoint, user |-> user, id |-> id, range |-> range,
                  expenses |-> expenses, status |-> status, n |-> n] >>
  /\ aServed' = aServed + 1

\* prisma.transaction.findFirst({ where: { transactionId, userId } })
findFirst(id, userId) == { t \in aTx : t.id = id /\ t.userId = userId }
\* where: { transactionId }
whereId(id) == { t \in aTx : t.id = id }

\* prisma.category.findFirst, then prisma.category.create when there is none
findOrCreateCategory(name) == aCategories \cup {name}

\* GET /api/expenses/[id]
GetById ==
  /\ aServed < MaxRequests
  /\ \E user \in Sessions, id \in RequestIds :
       respond("GET", user, id, <<>>, <<>>,
               IF user = "" THEN 401
               ELSE IF findFirst(id, user) = {} THEN 404 ELSE 200, 0)
  /\ UNCHANGED <<aTx, aMerchants, aCategories, aNextId>>
  /\ apiFrame

\* data of prisma.transaction.update in the PUT branch
putData(t, amount, category) ==
  [t EXCEPT !.amount = IF amount # 0 THEN amount ELSE @,
            !.category = category]

\* PUT /api/expenses/[id]
PutById ==
  /\ aServed < MaxRequests
  /\ \E user \in Sessions, id \in RequestIds,
        amount \in PutAmounts, category \in BodyCategories :
       IF user = ""
         THEN /\ respond("PUT", user, id, <<>>, <<>>, 401, 0)
              /\ UNCHANGED <<aTx, aCategories>>
         ELSE /\ aCategories' = IF category # "" THEN findOrCreateCategory(category)
                                ELSE aCategories
              /\ IF whereId(id) = {}
                   THEN \* update throws: record to update not found
                        /\ respond("PUT", user, id, <<>>, <<>>, 500, 0)
                        /\ UNCHANGED aTx
                   ELSE /\ aTx' = (aTx \ whereId(id))
                                    \cup { putData(t, amount, category) : t \in whereId(id) }
                        /\ respond("PUT", user, id, <<>>, <<>>, 200, 0)
  /\ UNCHANGED <<aMerchants, aNextId>>
  /\ apiFrame

\* DELETE /api/expenses/[id]
DeleteById ==
  /\ aServed < MaxRequests
  /\ \E user \in Sessions, id \in RequestIds :
       IF user = ""
         THEN /\ respond("DELETE", user, id, <<>>, <<>>, 401, 0)
              /\ UNCHANGED aTx
         ELSE IF findFirst(id, user) = {}
           THEN /\ respond("DELETE", user, id, <<>>, <<>>, 404, 0)
                /\ UNCHANGED aTx
           ELSE /\ aTx' = aTx \ whereId(id)
                /\ respond("DELETE", user, id, <<>>, <<>>, 200, 0)
  /\ UNCHANGED <<aMerchants, aCategories, aNextId>>
  /\ apiFrame

\* PATCH /api/expenses/update-category and updateTransactionCategory
PatchCategory ==
  /\ aServed < MaxRequests
  /\ \E user \in Sessions, transactionId \in PatchIds, category \in BodyCategories :
       IF user = ""
         THEN /\ respond("PATCH", user, transactionId, <<>>, <<>>, 401, 0)
              /\ UNCHANGED <<aTx, aCategories>>
         ELSE IF transactionId = 0 \/ category = ""
           THEN /\ respond("PATCH", user, transactionId, <<>>, <<>>, 400, 0)
                /\ UNCHANGED <<aTx, aCategories>>
           ELSE /\ aCategories' = findOrCreateCategory(category)
                /\ IF findFirst(transactionId, user) = {}
                     THEN \* getTransactionById throws NotFoundError
                          /\ respond("PATCH", user, transactionId, <<>>, <<>>, 404, 0)
                          /\ UNCHANGED aTx
                     ELSE /\ aTx' = (aTx \ whereId(transactionId))
                                      \cup { [t EXCEPT !.category = category] :
                                               t \in whereId(transactionId) }
                          /\ respond("PATCH", user, transactionId, <<>>, <<>>, 200, 0)
  /\ UNCHANGED <<aMerchants, aNextId>>
  /\ apiFrame

\* DELETE /api/expenses/delete-by-range
DeleteByRange ==
  /\ aServed < MaxRequests
  /\ \E user \in Sessions, range \in Ranges, dbFails \in BOOLEAN :
       IF user = ""
         THEN /\ respond("DELETE-RANGE", user, 0, range, <<>>, 401, 0)
              /\ UNCHANGED aTx
         ELSE IF range = <<>>
           THEN /\ respond("DELETE-RANGE", user, 0, range, <<>>, 400, 0)
                /\ UNCHANGED aTx
           ELSE IF dbFails
             THEN /\ respond("DELETE-RANGE", user, 0, range, <<>>, 500, 0)
                  /\ UNCHANGED aTx
             ELSE LET whereClause ==
                        { t \in aTx : inDeleteRange(t, user, range[1], range[2]) }
                      countBefore == Cardinality(whereClause)
                  IN
                  IF countBefore = 0
                    THEN /\ respond("DELETE-RANGE", user, 0, range, <<>>, 200, 0)
                         /\ UNCHANGED aTx
                    ELSE /\ aTx' = aTx \ whereClause
                         /\ respond("DELETE-RANGE", user, 0, range, <<>>, 200,
                                    Cardinality(whereClause))
  /\ UNCHANGED <<aMerchants, aCategories, aNextId>>
  /\ apiFrame

expensesOf(items) == [i \in 1..Len(items) |-> items[i].expense]

\* the transactionData of the batch handler
transactionRows(items) ==
  [i \in 1..Len(items) |->
     [items[i].expense EXCEPT !.category = orDefault(@, "Other"),
                              !.currency = orDefault(@, "CRC")]]

\* the first create of the batch that fails, 0 when none does: new Date(undefined)
\* is rejected by the insert, and the database may fail at the create dbFailAt
firstFailure(items, dbFailAt) ==
  LET bad == { i \in 1..Len(items) : ~items[i].dated \/ i = dbFailAt } IN
  IF bad = {} THEN 0 ELSE CHOOSE i \in bad : \A j \in bad : i <= j

\* the creates run one by one and the ones before the failure stay
createTransactionsBatch_unwrapped(transactions, userId, firstId, failAt) ==
  IF failAt = 0 THEN createAll(transactions, userId, firstId)
  ELSE createAll(SubSeq(transactions, 1, failAt - 1), userId, firstId)

\* createTransactionsBatch: the creates run inside one prisma.$transaction
createTransactionsBatch(transactions, userId, firstId, failAt) ==
  IF failAt = 0 THEN createAll(transactions, userId, firstId) ELSE {}

\* POST /api/expenses/batch
StoreBatchRequest ==
  /\ aServed < MaxRequests
  /\ \E user \in Sessions, body \in BatchBodies, dbFailAt \in 0..MaxBatch :
       LET expenses == body.expenses IN
       IF user = ""
         THEN /\ respond("BATCH", user, 0, <<>>, expenses, 401, 0)
              /\ UNCHANGED <<aTx, aMerchants, aCategories, aNextId>>
         ELSE IF ~body.isArray \/ ~batchValid(expensesOf(expenses))
           THEN /\ respond("BATCH", user, 0, <<>>, expenses, 400, 0)
                /\ UNCHANGED <<aTx, aMerchants, aCategories, aNextId>>
           ELSE LET rows == transactionRows(expenses)
                    failAt == firstFailure(expenses, dbFailAt)
                    result == createTransactionsBatch(rows, user, aNextId, failAt)
                IN
                /\ dbFailAt <= Len(expenses)
                /\ aMerchants' = aMerchants \cup { rows[i].merchant : i \in 1..Len(rows) }
                /\ aCategories' = aCategories \cup { rows[i].category : i \in 1..Len(rows) }
                /\ aTx' = aTx \cup result
                /\ aNextId' = aNextId + Cardinality(result)
                /\ IF failAt = 0
                     THEN respond("BATCH", user, 0, <<>>, expenses, 200, Cardinality(result))
                     ELSE respond("BATCH", user, 0, <<>>, expenses, 500, 0)
  /\ apiFrame

ApiNext ==
  GetById \/ PutById \/ DeleteById \/ PatchCategory \/ DeleteByRange
    \/ StoreBatchRequest

SpecApi == ApiInit /\ [][ApiNext]_vars

\* ------------------------------------------------------------------------
\* Properties
\* ------------------------------------------------------------------------
Range(f) == { f[i] : i \in DOMAIN f }

\* C1: idempotent re-import.  Two runs over the same mailbox in which every
\* request succeeds and the API labels the list it was sent leave as many
\* stored transactions of the user as the first run alone.
C1_IdempotentReimport ==
  (Len(runLog) >= 2 /\ runLog[1].ideal /\ runLog[2].ideal)
    => runLog[2].count = runLog[1].count

\* C2: storage invariant.  Every stored transaction has an amount > 0, a
\* non-empty merchant and a category that is one of the 15 labels.
C2_StorageInvariant ==
  \A t \in db : /\ t.amount > 0
                /\ t.merchant # ""
                /\ t.category \in EXPENSE_CATEGORIES

\* C3: categorization closure.  Every category batchCategorizeExpenses returns
\* is a label of the closed set or the sentinel, whichever path parsed the text.
C3_CategorizationClosure ==
  (catPc = "done" /\ catMode = "batch")
    => \A i \in 1..Len(catOut) :
         catOut[i].category \in EXPENSE_CATEGORIES \cup {"Unknown"}

sameExpense(a, b) ==
  /\ a.merchant = b.merchant /\ a.amount = b.amount
  /\ a.date = b.date /\ a.currency = b.currency

\* C4: batchCategorizeExpenses returns one entry per input record, the i-th
\* being the i-th input record with a category.
C4_OrderAndLength ==
  (catPc = "done" /\ catMode = "batch")
    => /\ Len(catOut) = Len(catIn)
       /\ \A i \in 1..Len(catOut) : sameExpense(catOut[i], catIn[i])

rankOf(order, stage) == CHOOSE i \in 1..Len(order) : order[i] = stage

inOrder(order) ==
  \A i \in 1..Len(stages) : \A j \in 1..Len(stages) :
    i < j => rankOf(order, stages[i]) < rankOf(order, stages[j])

\* C5 as stated: the stages of a run occur in the order DeletePriorWindow,
\* FetchMessages, ExtractFields, Categorize, StoreBatch, Summarize, none
\* entered twice; the delete is issued before any mail request.
C5_StageOrderAsStated ==
  inOrder(<<"DeletePriorWindow", "FetchMessages", "ExtractFields", "Categorize",
            "StoreBatch", "Summarize">>)

\* C5 amended: the stages of a run occur in the order FetchMessages,
\* DeletePriorWindow, ExtractFields, Categorize, StoreBatch, Summarize, none
\* entered twice; a run that returns went through FetchMessages,
\* DeletePriorWindow and ExtractFields and ends in Summarize; the delete is
\* issued only once the search and every body fetch are over.
C5_StageOrder ==
  /\ inOrder(<<"FetchMessages", "DeletePriorWindow", "ExtractFields", "Categorize",
               "StoreBatch", "Summarize">>)
  /\ frames # <<>> => stages = <<"FetchMessages">>
  /\ pc = "summarize" =>
       /\ SubSeq(stages, 1, 3) = <<"FetchMessages", "DeletePriorWindow", "ExtractFields">>
       /\ stages[Len(stages)] = "Summarize"

C5_Witness ==
  /\ pc = "summarize"
  /\ stages = <<"FetchMessages", "DeletePriorWindow", "ExtractFields", "Categorize",
                "StoreBatch", "Summarize">>

\* C6: bounded retry.  A request that keeps being answered 429 is re-issued
\* at most maxRetries times: the search is not started over more often than
\* that, and callGeminiAPI does not go beyond attempt maxRetries + 1.
C6_BoundedRetry ==
  /\ searchRetries <= maxRetries
  /\ attempt <= maxRetries + 1

\* C7: summary accounting.  In the summary processed is the number of
\* messages examined and errors is the number of extraction failures plus
\* categorization failures plus storage failures.
C7_SummaryAccounting ==
  pc = "summarize"
    => /\ processed = Len(messages)
       /\ errors = extractFailures + catFailures + storeFailures

\* C8: no silent loss.  In the summary every message id the search returned
\* is counted in processed or in errors.
C8_NoSilentLoss ==
  pc = "summarize" => processed + errors >= Len(searchIds)

\* C9: fallback guarantee.  When every call to the API fails, the
\* categorization returns normally, after at most maxRetries + 1 requests,
\* with exactly one entry per input record.
C9_FallbackGuarantee ==
  (catPc = "done" /\ apiOks = 0)
    => /\ ~catThrew
       /\ Len(catOut) = Len(catIn)
       /\ apiCalls <= maxRetries + 1

C9_Witness ==
  /\ catPc = "done" /\ apiOks = 0 /\ catMode = "batch"
  /\ apiCalls = maxRetries + 1
  /\ Len(catIn) = 2 /\ Len(catOut) = 2

\* C10: rule-based fallback.  After a total failure of the categorization
\* (the call failed, or nothing could be recovered from the text) every
\* record of the run carries determineCategory of its merchant.
C10_RuleBasedFallback ==
  (pc \in {"store", "storeEach", "summarize"} /\ rawExpenses # <<>>
     /\ (catFailures > 0 \/ "garbage" \in Range(respKinds)))
    => /\ Len(categorizedExpenses) = Len(rawExpenses)
       /\ \A i \in 1..Len(categorizedExpenses) :
            categorizedExpenses[i].category
              = determineCategory(categorizedExpenses[i].merchant)

\* C11: only authentication failures are fatal.  A run has thrown exactly
\* when one of its requests (credential lookup, mail search, body fetch,
\* delete, store) met an authentication failure; such a failure aborts the
\* run at once, and no other failure does.
C11_OnlyAuthFatal ==
  (pc = "failed") <=> (health.auth # {})

\* C12: fail fast on 401.  Once a search request or a body fetch was answered
\* 401, no activation of getEmailsFromSender goes on issuing requests and the
\* error has reached the caller.
C12_FailFastOn401 ==
  (health.auth \cap {"search", "body"} # {})
    => (frames = <<>> /\ pc = "failed")

\* the user's records dated inside the imported month, startDate..endDate
windowRecords(records) ==
  { t \in records : t.userId = User /\ t.date >= windowStart /\ t.date <= windowEnd }

\* C13: the delete step of a run reports as deleted exactly the number of
\* records the month window held before it, and leaves none of them, so that
\* they are gone before the run stores anything.
C13_DeletedCount ==
  [][ (pc = "delete" /\ pc' = "extract")
        => /\ deleted' = Cardinality(windowRecords(db))
           /\ windowRecords(db') = {} ]_vars

\* C14: pagination completeness.  An activation of getEmailsFromSender starts
\* fetching bodies only when no page is left: the ids it holds are the ids of
\* all the pages of its query, in page order.
C14_PaginationComplete ==
  \A i \in 1..Len(frames) :
    frames[i].pc = "fetch"
      => /\ frames[i].rest = <<>>
         /\ frames[i].allMessages = matching(frames[i].query)

\* C15: store fallback and stored count.  The individual inserts are made
\* only after the bulk insert failed, and in the summary stored is the number
\* of transactions the run persisted.
C15_StoredCount ==
  /\ pc = "storeEach" => storeFailures >= 1
  /\ pc = "summarize" => stored = persisted

\* Math.ceil(n / maxBatchSize)
chunkCount(n) == (n + maxBatchSize - 1) \div maxBatchSize

\* the k-th chunk of at most maxBatchSize consecutive records
chunkOf(expenses, k) ==
  SubSeq(expenses, maxBatchSize * (k - 1) + 1, Min(maxBatchSize * k, Len(expenses)))

inFlight ==
  { r \in (DOMAIN acts) \X (1..FetchMsgs) : acts[r[1]].slot[r[2]] = "inflight" }

batchNo(m) == (m - 1) \div batchSizeOf(fMode)

\* C17: join barrier on body fetches.  At most batchSize body fetches are in
\* flight at any time, and in an activation no request of a later batch is
\* sent while a request of an earlier batch is unanswered.
C17_JoinBarrier ==
  /\ Cardinality(inFlight) <= batchSizeOf(fMode)
  /\ \A a \in DOMAIN acts : \A m \in 1..FetchMsgs : \A n \in 1..FetchMsgs :
       (batchNo(n) > batchNo(m) /\ acts[a].slot[n] \notin {"idle", "delay"})
         => requestOver(acts[a].slot[m])

\* C18, the serialized half: when one call has stored before the other
\* deletes, the window does not end up holding the records of both calls:
\* the user has at most one record per expense of the mailbox.
C18_SerializedNoDuplicates ==
  ((\A r \in Runs : rPc[r] = "done") /\ rTrace[2][2] = "store")
    => userCount <= Len(rExp)

\* C19, the search ladder of every activation of getEmailsFromSender: the
\* queries are answered in the order primary, alternate, no date; a query is
\* issued only when every query before it has yielded zero messages; and a
\* query that yielded at least one message is the last of its ladder.
C19_SearchLadder ==
  \A i \in 1..Len(frames) :
    LET l == frames[i].ladder IN
    /\ \A j \in 1..Len(l) : l[j].q = j /\ (j < Len(l) => l[j].n = 0)
    /\ frames[i].pc = "search" =>
         /\ frames[i].query = Len(l) + 1
         /\ \A j \in 1..Len(l) : l[j].n = 0

\* the primary and the alternate query came back empty, and the query with no
\* date qualifier found the messages
C19_Witness ==
  \E i \in 1..Len(frames) :
    LET l == frames[i].ladder IN
    /\ Len(l) = 3 /\ l[1].ok /\ l[1].n = 0 /\ l[2].ok /\ l[2].n = 0
    /\ l[3].n >= 1 /\ frames[i].allMessages # <<>>

\* the tokens of the Monto cell that parse to a number
amountsIn(cell) ==
  LET toks == montoMatchOf(cell) IN
  { parseFloat(toks[i]).value : i \in { j \in 1..Len(toks) : parseFloat(toks[j]).numeric } }

\* C20, extraction validation: parseExpenseEmailWithoutAI returns null when
\* the body has no merchant field, no amount field, or no amount that parses
\* to a number greater than 0; otherwise it returns a record whose merchant is
\* the text of the merchant field and whose amount is a positive amount of the
\* amount field.
C20_ExtractionValidation ==
  pPc = "returned" =>
    IF \/ pBody.kind = "array"
       \/ trim(pBody.commerce) = <<>>
       \/ trim(pBody.monto) = <<>>
       \/ \A a \in amountsIn(pBody.monto) : a <= 0
      THEN pResult = <<>>
      ELSE /\ pResult # <<>>
           /\ pResult[1].merchant = trim(pBody.commerce)
           /\ pResult[1].amount \in amountsIn(pBody.monto)
           /\ pResult[1].amount > 0

\* a 3-letter currency code, and the fallback code of the storage requests
isCurrencyCode(tok) == Len(tok) = 3 /\ \A i \in 1..3 : tok[i] = "C"
FallbackCode == <<"C", "R", "C">>

\* C21, currency default: a body with a merchant whose Monto cell carries a
\* positive amount and no 3-letter currency code is extracted, and the
\* currency of the record is the fallback code.
C21_CurrencyDefault ==
  ( /\ pPc = "returned" /\ pBody.kind = "message"
    /\ trim(pBody.commerce) # <<>>
    /\ amountsIn(pBody.monto) # {}
    /\ \A a \in amountsIn(pBody.monto) : a > 0
    /\ LET toks == montoMatchOf(pBody.monto) IN
       \A i \in 1..Len(toks) : ~isCurrencyCode(toks[i]) )
    => (pResult # <<>> /\ pResult[1].currency = FallbackCode)

\* the text strategy n hands to JSON.parse, <<>> when it has none
strategyText(n, text) ==
  CASE n = 1 -> text
    [] n = 2 -> cleanAndRepair(text)
    [] n = 3 -> Bind(cleanAndRepair(text), LAMBDA cleaned : extractValidJSON(cleaned))
    [] OTHER -> <<>>

strategyParses(n, text) ==
  Bind(strategyText(n, text), LAMBDA t : (n = 1 \/ t # <<>>) /\ JSONparse(t).ok)

\* C22, the pipeline of RobustJSONParser.parse: the strategies run in the
\* order direct parse, clean-and-repair, extraction; the call returns at the
\* first strategy that parses, with success and the lengths of the input and
\* of the text parsed; when no strategy parses it returns success = false
\* with the lengths of the input and of the cleaned text; it never throws.
C22_ParsePipeline ==
  /\ jPc # "threw"
  /\ \A k \in 1..Len(jTried) : jTried[k] = k
  /\ jPc = "returned" =>
       LET winners == { n \in 1..3 : strategyParses(n, jIn.text) } IN
       /\ Len(jResult) = 1
       /\ jResult[1].originalLength = Len(jIn.text)
       /\ jResult[1].success <=> winners # {}
       /\ jResult[1].success =>
            /\ Len(jTried) = Least(winners)
            /\ jResult[1].cleanedLength = Len(strategyText(Least(winners), jIn.text))
       /\ ~jResult[1].success =>
            jResult[1].cleanedLength = Len(cleanAndRepair(jIn.text))

\* a text that neither parses as it is nor after the repair, and whose
\* bracketed span does
C22_Witness ==
  jPc = "returned" /\ jTried = <<1, 2, 3>> /\ jResult[1].success

\* the kinds of malformed model output the repair is meant for
MalformedClasses == {"escaped", "trailing", "bareword", "truncated"}

isPrefix(a, b) == Len(a) <= Len(b) /\ SubSeq(b, 1, Len(a)) = a

\* the value has the structure meant: the array of the objects written, each
\* with its fields; for a text that was cut, an array of the first objects
expectedStructure(data, input) ==
  IF input.class = "truncated"
    THEN data.t = "arr" /\ isPrefix(data.items, input.value.items)
    ELSE data = input.value

\* C23, soundness of the repair: for a text of one of the malformed classes
\* (escaped quotes, trailing commas, bareword keys, truncated array),
\* RobustJSONParser.parse returns success = true and a value of the expected
\* structure.
C23_RepairSoundness ==
  (jPc = "returned" /\ jIn.class \in MalformedClasses) =>
    (jResult[1].success /\ expectedStructure(jResult[1].data, jIn))

\* C24, the list getEmailsFromSender returns to processEmailsFromSender: every
\* element is one full message whose id is among the ids of the search, no id
\* appears twice, and the list is not longer than the list of ids.
C24_FetchedListShape ==
  /\ \A i \in 1..Len(messages) :
       /\ messages[i].kind = "message"
       /\ \E j \in 1..Len(searchIds) : searchIds[j] = messages[i].id
  /\ \A i, j \in 1..Len(messages) :
       (i # j /\ messages[i].kind = "message" /\ messages[j].kind = "message")
         => messages[i].id # messages[j].id
  /\ Len(messages) <= Len(searchIds)


\* C25: every record an import run of the month has stored carries a
\* transaction date inside the window of that month, as the delete-by-range
\* request of a later run of the same month reads it: the later run finds
\* the record, whichever query of the ladder produced the message and
\* whichever source (body, Date header, current time) the date came from.
C25_StoredInsideWindow ==
  \A t \in db : inDeleteRange(t, User, isoDay(windowStart), isoDay(windowEnd))


\* a request of one of the endpoints has just been served
served(endpoints) ==
  /\ aServed' = aServed + 1
  /\ aLast'[1].endpoint \in endpoints

\* C26: owner isolation.  A GET, PUT or DELETE of /api/expenses/[id] or a
\* PATCH of update-category that names a transaction owned by another user
\* than the session's changes nothing in storage: the transaction, merchant
\* and category tables stay as they were.
C26_OwnerIsolation ==
  [][ served({"GET", "PUT", "DELETE", "PATCH"})
        => ((\E t \in aTx : t.id = aLast'[1].id /\ t.userId # aLast'[1].user)
              => /\ aTx' = aTx
                 /\ aMerchants' = aMerchants
                 /\ aCategories' = aCategories) ]_vars

\* the date lies in [startDate, endDate] as the handler reads the two days
withinRange(t, range) ==
  /\ range # <<>>
  /\ t.date >= dayToDate(range[1])
  /\ t.date <= dayToDate(range[2])

\* C27: frame of delete-by-range.  The request removes only transactions of
\* the session user dated inside [startDate, endDate]; answered 200 it
\* removes all of them and reports their number as deleted; the merchant and
\* category tables are unchanged.
C27_DeleteByRangeFrame ==
  [][ served({"DELETE-RANGE"})
        => /\ aTx' \subseteq aTx
           /\ \A t \in aTx \ aTx' :
                t.userId = aLast'[1].user /\ withinRange(t, aLast'[1].range)
           /\ aLast'[1].status = 200
                => /\ \A t \in aTx' :
                        ~(t.userId = aLast'[1].user /\ withinRange(t, aLast'[1].range))
                   /\ aLast'[1].n = Cardinality(aTx \ aTx')
           /\ aMerchants' = aMerchants
           /\ aCategories' = aCategories ]_vars

\* a delete-by-range removed a record and left the record of the other user
\* that is dated inside the same range
C27_Witness ==
  /\ aLast # <<>>
  /\ aLast[1].endpoint = "DELETE-RANGE" /\ aLast[1].status = 200 /\ aLast[1].n >= 1
  /\ \E t \in aTx : t.userId # aLast[1].user /\ withinRange(t, aLast[1].range)

\* the created transaction of the i-th expense of the request
createdFor(created, items, i, user) ==
  \E t \in created :
    /\ t.userId = user
    /\ t.merchant = items[i].expense.merchant
    /\ t.amount = items[i].expense.amount
    /\ t.date = items[i].expense.date

\* C28: the bulk store is all-or-nothing.  A POST /api/expenses/batch answered
\* 200 has created one transaction for every expense of the request and
\* reports stored equal to the length of the request; answered otherwise it
\* has created no transaction.  No request removes or alters a transaction.
C28_BatchAllOrNothing ==
  [][ served({"BATCH"})
        => /\ aTx \subseteq aTx'
           /\ aLast'[1].status = 200
                => /\ Cardinality(aTx' \ aTx) = Len(aLast'[1].expenses)
                   /\ aLast'[1].n = Len(aLast'[1].expenses)
                   /\ \A i \in 1..Len(aLast'[1].expenses) :
                        createdFor(aTx' \ aTx, aLast'[1].expenses, i, aLast'[1].user)
           /\ aLast'[1].status # 200 => aTx' = aTx ]_vars

\* a batch of two expenses whose second insert failed: answered 500 with the
\* table as it was seeded
C28_Witness ==
  /\ aLast # <<>>
  /\ aLast[1].endpoint = "BATCH" /\ aLast[1].status = 500
  /\ Len(aLast[1].expenses) = 2 /\ aLast[1].expenses[1].dated
  /\ aTx = SeedTx


\* the user's records the running import has created so far: the records now,
\* less the ones the previous run left and this run's delete step kept
createdByRun ==
  userCount - ((IF runLog = <<>> THEN 0 ELSE runLog[Len(runLog)].count) - deleted)

\* C29: no double store within a run.  From Step 3 on the run has created at
\* most one record per categorized expense, and while the one-at-a-time
\* fallback is at expense k it has created at most k - 1: the failed bulk
\* call left none behind.
C29_NoDoubleStore ==
  /\ pc \in {"store", "storeEach", "summarize"}
       => createdByRun <= Len(categorizedExpenses)
  /\ pc = "storeEach" => createdByRun <= storeIdx - 1

\* the bulk call failed and the fallback has stored every expense, two of them
C29_Witness ==
  /\ pc = "summarize"
  /\ storeFailures = 1
  /\ Len(categorizedExpenses) = 2
  /\ createdByRun = 2


====
